---- MODULE Spec2Model ----
(***************************************************************************)
(* A model of the aevitas rendering engine: the manifest index and its    *)
(* relation table (pkg/manifest), the resource graph builder              *)
(* (pkg/resource), the parallel render schedulers and the artifact cache  *)
(* (internal/render, pkg/resource).                                       *)
(*                                                                         *)
(* Selectors are pairs of small numbers: kgvn is the position of the      *)
(* kind/group/version/namespace string in alphabetical order, name the    *)
(* position of the name, with 0 for "*" (which sorts before letters), so  *)
(* that the numeric order of ID is the string order of Selector.ID().     *)
(***************************************************************************)
EXTENDS Integers, Sequences, FiniteSets, TLC

VARIABLES
    decl,        \* Meta.Imports ++ Meta.Relations ++ Meta.Children of every manifest
    content,     \* Index.content
    relations,   \* Index.relations
    inserted,    \* history: the manifests handed to Insert so far
    collided,    \* history: the manifests some Insert reported as collisions
    result,      \* the outcome of the last Index operation
    lookup       \* what the last lookup since the last Insert or Collate handed to its caller

ixvars == <<decl, content, relations, inserted, collided, result, lookup>>

VARIABLES
    concurrency, \* the concurrency argument of Resource.Render
    ctxDone,     \* the context handed to the root Render call is cancelled
    call,        \* per resource: the Render call on it (errgroup, semaphore, goroutines)
    embedTask,   \* per embedded resource: the goroutine that renders its instance
    failures     \* history: the sub-operations that failed so far

rvars == <<concurrency, ctxDone, call, embedTask, failures>>

VARIABLES
    eachChild,     \* per manifest: the manifests EachChild hands to its callback
    rootTarget,    \* the manifest resource.New is called for
    stack,         \* the calls of Resource.New that have not returned
    resourceCache, \* Resource.resourceCache
    root,          \* the resource the outermost Resource.New returned
    toRender,      \* Tree.toRender
    treeAssets,    \* Tree.assets
    phase          \* how far NewTree has come

bvars == <<eachChild, rootTarget, stack, resourceCache, root, toRender, treeAssets, phase>>

VARIABLES
    hrefs,       \* per page: Resource.Href()
    kind,        \* the kind of the image asset
    source,      \* the bytes of the source file of the image
    dest,        \* the files of the output directory, by path
    cacheFs,     \* the files of Tree.cacheDir, by Resource.ID()
    task,        \* per item of the run: not yet run, returned nil, returned an error
    last,        \* history, per page: what its last render found and did
    run,         \* the calls of Tree.Render so far
    running,     \* a call of Tree.Render has not returned
    cancelled,   \* ctx of the run is cancelled
    writes,      \* history: the file writes of the run
    faults,      \* history: the operations that failed so far
    tampers,     \* history: the output files and manifests changed between runs so far
    untouched,   \* history: no output file or manifest was changed since the last run returned
    inRow,       \* history: the run started with nothing changed since the run before
    afterOK,     \* history: the run before this one returned nil
    runErr,      \* the last call of Tree.Render returned an error
    handles,     \* the files a writer created and has not closed
    body,        \* how many times the body of each page's manifest was edited
    closed       \* the progress channels of the last call of Tree.Render that are closed

cvars == <<hrefs, kind, source, dest, cacheFs, task, last, run, running, cancelled, writes,
           faults, tampers, untouched, inRow, afterOK, runErr, handles, body, closed>>

VARIABLES
    ancestry,    \* a resource and the resources above it, from Root down, each the child of the one before
    link         \* what the last Href or HrefCanonical call returned

hvars == <<ancestry, link>>

vars == <<ixvars, rvars, bvars, cvars, hvars>>

\* the variables an operation of one part leaves alone
notIndex == <<rvars, bvars, cvars, hvars>>

notRender == <<ixvars, bvars, cvars, hvars>>

notBuild == <<ixvars, rvars, cvars, hvars>>

notCache == <<ixvars, rvars, bvars, hvars>>

notHref == <<ixvars, rvars, bvars, cvars>>

(***************************************************************************)
(* Bounds                                                                  *)
(***************************************************************************)
MaxInserted == 3     \* manifests handed to Insert in one run
MaxBatch == 2        \* manifests handed to one Insert call
MaxDecl == 2         \* manifests of one run that declare a relation
MaxPasses == 8       \* passes of the Collate loop that are followed
MaxSkipped == 2      \* notes of the archive that are left out of a run
MaxWindow == 3       \* the largest offset and limit of a relation

NIL == 0

(***************************************************************************)
(* Selectors (internal/selector/selector.go)                               *)
(***************************************************************************)
Star == 0

\* the empty string as a part of a selector
Blank == 5

Sel(k, n) == [kgvn |-> k, name |-> n]

ID(s) == s.kgvn * 10 + s.name

IsWildcard(s) == s.name = Star

\* Selector.Validate: the error of a selector with an empty part
Validate(s) ==
    IF s.kgvn = Blank \/ s.name = Blank
    THEN "kind, group, version, Name and namespace must be set"
    ELSE ""

\* Matches that lets only the receiver be the wildcard
Matches_receiverOnly(s, check) ==
    check.kgvn = s.kgvn /\ (check.name = s.name \/ IsWildcard(s))

Matches(s, check) ==
    check.kgvn = s.kgvn /\ (check.name = s.name \/ IsWildcard(check) \/ IsWildcard(s))

(***************************************************************************)
(* The manifests of a run.  A manifest is a pointer (its position in the   *)
(* catalogue); two entries may carry the same selector.  kgvn 1 is a shard *)
(* of posts, kgvn 2 a shard of topics.                                     *)
(***************************************************************************)
NoPublishAt == [year |-> 0, month |-> 0, day |-> 0]

Catalogue == <<
    [sel |-> Sel(1, 1), hasMeta |-> TRUE, live |-> TRUE,
     publishAt |-> [year |-> 2010, month |-> 6, day |-> 2]],
    [sel |-> Sel(1, 2), hasMeta |-> TRUE, live |-> TRUE,
     publishAt |-> [year |-> 2010, month |-> 6, day |-> 1]],
    [sel |-> Sel(2, 1), hasMeta |-> TRUE, live |-> TRUE,
     publishAt |-> NoPublishAt],
    [sel |-> Sel(1, 1), hasMeta |-> TRUE, live |-> TRUE,
     publishAt |-> [year |-> 2011, month |-> 1, day |-> 1]],
    [sel |-> Sel(1, 3), hasMeta |-> TRUE, live |-> FALSE,
     publishAt |-> [year |-> 2009, month |-> 1, day |-> 1]],
    [sel |-> Sel(1, 1), hasMeta |-> TRUE, live |-> TRUE,
     publishAt |-> [year |-> 2012, month |-> 1, day |-> 1]],
    [sel |-> Sel(1, 4), hasMeta |-> TRUE, live |-> TRUE,
     publishAt |-> [year |-> 2030, month |-> 6, day |-> 1]],
    [sel |-> Sel(1, 3), hasMeta |-> TRUE, live |-> TRUE,
     publishAt |-> [year |-> 2010, month |-> 7, day |-> 1]]
>> \o [i \in 1..14 |->
    [sel |-> Sel(4, i), hasMeta |-> TRUE, live |-> TRUE,
     publishAt |-> [year |-> 2015, month |-> 1, day |-> IF i <= 4 THEN 1 ELSE 2]]]
\o <<
    [sel |-> Sel(1, Star), hasMeta |-> TRUE, live |-> TRUE,
     publishAt |-> [year |-> 2010, month |-> 6, day |-> 3]],
    [sel |-> Sel(1, Blank), hasMeta |-> TRUE, live |-> TRUE,
     publishAt |-> [year |-> 2010, month |-> 6, day |-> 4]],
    [sel |-> Sel(4, 15), hasMeta |-> TRUE, live |-> TRUE,
     publishAt |-> [year |-> 2009, month |-> 6, day |-> 1]]
>>

\* the manifests of the runs that declare relations
Manifests == 1..5

\* the manifests of the runs that look things up: a second duplicate of the
\* first post, a post to be published in ten years, and a third post that
\* has the ID of the post that is not live
Library == 1..8

\* the manifests of the runs that fill one long shard: fourteen notes of one
\* KGVN, four published on one day and ten on the next
Archive == 9..22

\* the manifests of the runs that parse what they insert: a post named "*" and
\* a post without a name
Drafts == 23..24

\* an early note, published before every post
EarlyNote == Len(Catalogue)

SelectorOf(m) == Catalogue[m].sel

\* time.Now() of the run, as a date
Now == [year |-> 2020, month |-> 1, day |-> 1]

DateOf(p) == (p.year * 12 + (p.month - 1)) * 31 + (p.day - 1)

PublishAt(m) ==
    IF Catalogue[m].publishAt = NoPublishAt THEN 0
    ELSE DateOf(Catalogue[m].publishAt)

IsLive(m) ==
    IF ~Catalogue[m].hasMeta THEN FALSE
    ELSE IF ~Catalogue[m].live THEN FALSE
    ELSE IF PublishAt(m) # 0 THEN DateOf(Now) > PublishAt(m)
    ELSE TRUE

\* Less that never falls back to the IDs
Less_timesOnly(m, compare) ==
    IF compare = NIL \/ ~Catalogue[compare].hasMeta THEN FALSE
    ELSE PublishAt(m) < PublishAt(compare)

\* Less that puts the manifest published later first
Less_newerFirst(m, compare) ==
    IF compare = NIL \/ ~Catalogue[compare].hasMeta THEN FALSE
    ELSE IF PublishAt(m) = 0 \/ PublishAt(compare) = 0
         THEN ID(SelectorOf(m)) < ID(SelectorOf(compare))
    ELSE PublishAt(m) > PublishAt(compare)

Less(m, compare) ==
    IF compare = NIL \/ ~Catalogue[compare].hasMeta THEN FALSE
    ELSE IF PublishAt(m) = 0 \/ PublishAt(compare) = 0
         THEN ID(SelectorOf(m)) < ID(SelectorOf(compare))
    ELSE PublishAt(m) < PublishAt(compare)

(***************************************************************************)
(* sort.Sort of go 1.14 (the go directive of go.mod).  A range of at most  *)
(* 12 elements gets one shell pass with gap 6 and an insertion sort; a     *)
(* longer range is partitioned by doPivot, or heap-sorted once the depth   *)
(* limit is used up.  rev is sort.Reverse.  The operators named ...0 take  *)
(* the indexes of go, from 0.                                              *)
(***************************************************************************)
LessAt(s, i, j, rev) == IF rev THEN Less(s[j], s[i]) ELSE Less(s[i], s[j])

Swap(s, i, j) == [s EXCEPT ![i] = s[j], ![j] = s[i]]

RECURSIVE shellPass(_, _, _)
shellPass(s, i, rev) ==
    IF i > Len(s) THEN s
    ELSE shellPass(IF LessAt(s, i, i - 6, rev) THEN Swap(s, i, i - 6) ELSE s, i + 1, rev)

RECURSIVE sinkDown(_, _, _)
sinkDown(s, j, rev) ==
    IF j > 1 /\ LessAt(s, j, j - 1, rev) THEN sinkDown(Swap(s, j, j - 1), j - 1, rev)
    ELSE s

RECURSIVE insertionSort(_, _, _)
insertionSort(s, i, rev) ==
    IF i > Len(s) THEN s
    ELSE insertionSort(sinkDown(s, i, rev), i + 1, rev)

\* the last branch of quickSort, on a whole slice
sortShort(s, rev) ==
    IF Len(s) > 1 THEN insertionSort(shellPass(s, 7, rev), 2, rev) ELSE s

Less0(d, i, j, rev) == LessAt(d, i + 1, j + 1, rev)

Swap0(d, i, j) == Swap(d, i + 1, j + 1)

\* siftDown(data, lo, hi, first) from root on; node is root, child is 2*root + 1
RECURSIVE siftDown(_, _, _, _, _)
siftDownTo(d, node, hi, first, rev, child) ==
    IF ~Less0(d, first + node, first + child, rev) THEN d
    ELSE siftDown(Swap0(d, first + node, first + child), child, hi, first, rev)

siftDown(d, node, hi, first, rev) ==
    IF 2 * node + 1 >= hi THEN d
    ELSE siftDownTo(d, node, hi, first, rev,
                    IF 2 * node + 2 < hi
                          /\ Less0(d, first + 2 * node + 1, first + 2 * node + 2, rev)
                    THEN 2 * node + 2 ELSE 2 * node + 1)

RECURSIVE heapBuild(_, _, _, _, _)
heapBuild(d, i, hi, first, rev) ==
    IF i < 0 THEN d ELSE heapBuild(siftDown(d, i, hi, first, rev), i - 1, hi, first, rev)

RECURSIVE heapPop(_, _, _, _)
heapPop(d, i, first, rev) ==
    IF i < 0 THEN d
    ELSE heapPop(siftDown(Swap0(d, first, first + i), 0, i, first, rev), i - 1, first, rev)

heapSort(d, a, b, rev) ==
    heapPop(heapBuild(d, (b - a - 1) \div 2, b - a, a, rev), b - a - 1, a, rev)

\* medianOfThree(data, m1, m0, m2)
medianOrder(d, m1, m0, rev) == IF Less0(d, m1, m0, rev) THEN Swap0(d, m1, m0) ELSE d

medianOfThreeFrom(d, m1, m0, m2, rev) ==
    IF Less0(d, m2, m1, rev) THEN medianOrder(Swap0(d, m2, m1), m1, m0, rev) ELSE d

medianOfThree(d, m1, m0, m2, rev) ==
    medianOfThreeFrom(medianOrder(d, m1, m0, rev), m1, m0, m2, rev)

\* the choice of the pivot at the start of doPivot; it ends up in data[lo]
ninther(d, lo, hi, m, s, rev) ==
    medianOfThree(
        medianOfThree(medianOfThree(d, lo, lo + s, lo + 2 * s, rev), m, m - s, m + s, rev),
        hi - 1, hi - 1 - s, hi - 1 - 2 * s, rev)

choosePivot(d, lo, hi, m, rev) ==
    medianOfThree(IF hi - lo > 40 THEN ninther(d, lo, hi, m, (hi - lo) \div 8, rev) ELSE d,
                  lo, m, hi - 1, rev)

\* for ; a < c && data.Less(a, pivot); a++
RECURSIVE skipLess(_, _, _, _, _)
skipLess(d, a, c, pivot, rev) ==
    IF a < c /\ Less0(d, a, pivot, rev) THEN skipLess(d, a + 1, c, pivot, rev) ELSE a

\* for ; b < c && !data.Less(pivot, b); b++
RECURSIVE skipNotGreater(_, _, _, _, _)
skipNotGreater(d, b, c, pivot, rev) ==
    IF b < c /\ ~Less0(d, pivot, b, rev) THEN skipNotGreater(d, b + 1, c, pivot, rev) ELSE b

\* for ; b < c && data.Less(pivot, c-1); c--
RECURSIVE skipGreater(_, _, _, _, _)
skipGreater(d, b, c, pivot, rev) ==
    IF b < c /\ Less0(d, pivot, c - 1, rev) THEN skipGreater(d, b, c - 1, pivot, rev) ELSE c

\* the partitioning loop of doPivot
RECURSIVE partition(_, _, _, _, _)
partitionAt(d, b, c, pivot, rev) ==
    IF b >= c THEN [d |-> d, b |-> b, c |-> c, dups |-> 0]
    ELSE partition(Swap0(d, b, c - 1), b + 1, c - 1, pivot, rev)

partitionFrom(d, b, c, pivot, rev) ==
    partitionAt(d, b, skipGreater(d, b, c, pivot, rev), pivot, rev)

partition(d, b, c, pivot, rev) ==
    partitionFrom(d, skipNotGreater(d, b, c, pivot, rev), c, pivot, rev)

\* the three tests for points equal to the pivot
dupHigh(st, pivot, hi, rev) ==
    IF ~Less0(st.d, pivot, hi - 1, rev)
    THEN [d |-> Swap0(st.d, st.c, hi - 1), b |-> st.b, c |-> st.c + 1, dups |-> st.dups + 1]
    ELSE st

dupLow(st, pivot, rev) ==
    IF ~Less0(st.d, st.b - 1, pivot, rev)
    THEN [d |-> st.d, b |-> st.b - 1, c |-> st.c, dups |-> st.dups + 1]
    ELSE st

dupMid(st, m, pivot, rev) ==
    IF ~Less0(st.d, m, pivot, rev)
    THEN [d |-> Swap0(st.d, m, st.b - 1), b |-> st.b - 1, c |-> st.c, dups |-> st.dups + 1]
    ELSE st

dupTests(st, m, pivot, hi, rev) == dupMid(dupLow(dupHigh(st, pivot, hi, rev), pivot, rev), m, pivot, rev)

\* for ; a < b && !data.Less(b-1, pivot); b--
RECURSIVE skipEqual(_, _, _, _, _)
skipEqual(d, a, b, pivot, rev) ==
    IF a < b /\ ~Less0(d, b - 1, pivot, rev) THEN skipEqual(d, a, b - 1, pivot, rev) ELSE b

\* the loop that protects against a lot of duplicates; it returns data and b
RECURSIVE protectLoop(_, _, _, _, _)
protectAt(d, a, b, pivot, rev) ==
    IF a >= b THEN [d |-> d, b |-> b]
    ELSE protectLoop(Swap0(d, a, b - 1), a + 1, b - 1, pivot, rev)

protectFrom(d, a, b, pivot, rev) == protectAt(d, skipLess(d, a, b, pivot, rev), b, pivot, rev)

protectLoop(d, a, b, pivot, rev) == protectFrom(d, a, skipEqual(d, a, b, pivot, rev), pivot, rev)

\* the end of doPivot: the pivot is swapped into the middle
pivotPlaced(done, lo, c) == [data |-> Swap0(done.d, lo, done.b - 1), mlo |-> done.b - 1, mhi |-> c]

pivotProtected(st, a, lo, protect, rev) ==
    pivotPlaced(IF protect THEN protectLoop(st.d, a, st.b, lo, rev) ELSE [d |-> st.d, b |-> st.b],
                lo, st.c)

pivotTested(st, a, lo, rev) == pivotProtected(st, a, lo, st.dups > 1, rev)

pivotPartitioned(st, a, lo, hi, m, rev) ==
    IF hi - st.c < 5 THEN pivotProtected(st, a, lo, TRUE, rev)
    ELSE IF hi - st.c < (hi - lo) \div 4 THEN pivotTested(dupTests(st, m, lo, hi, rev), a, lo, rev)
    ELSE pivotProtected(st, a, lo, FALSE, rev)

pivotScanned(d, a, lo, hi, m, rev) ==
    pivotPartitioned(partition(d, a, hi - 1, lo, rev), a, lo, hi, m, rev)

pivotChosen(d, lo, hi, m, rev) == pivotScanned(d, skipLess(d, lo + 1, hi - 1, lo, rev), lo, hi, m, rev)

\* doPivot(data, lo, hi): the data it leaves, midlo and midhi
doPivot(d, lo, hi, rev) ==
    pivotChosen(choosePivot(d, lo, hi, (lo + hi) \div 2, rev), lo, hi, (lo + hi) \div 2, rev)

\* the elements of d from a to b-1 replaced by those of sorted
splice(d, a, sorted) ==
    [i \in 1..Len(d) |-> IF i > a /\ i <= a + Len(sorted) THEN sorted[i - a] ELSE d[i]]

RECURSIVE quickSort(_, _, _, _, _)
quickSortSplit(a, b, maxDepth, rev, p) ==
    IF p.mlo - a < b - p.mhi
    THEN quickSort(quickSort(p.data, a, p.mlo, maxDepth, rev), p.mhi, b, maxDepth, rev)
    ELSE quickSort(quickSort(p.data, p.mhi, b, maxDepth, rev), a, p.mlo, maxDepth, rev)

quickSort(d, a, b, maxDepth, rev) ==
    IF b - a > 12
    THEN IF maxDepth = 0 THEN heapSort(d, a, b, rev)
         ELSE quickSortSplit(a, b, maxDepth - 1, rev, doPivot(d, a, b, rev))
    ELSE IF b - a > 1 THEN splice(d, a, sortShort(SubSeq(d, a + 1, b), rev))
    ELSE d

\* maxDepth(n): twice the number of bits of n
RECURSIVE bits(_)
bits(i) == IF i > 0 THEN 1 + bits(i \div 2) ELSE 0

sortSort(s, rev) == quickSort(s, 0, Len(s), 2 * bits(Len(s)), rev)

(***************************************************************************)
(* Maps with a growing key set                                             *)
(***************************************************************************)
EmptyMap == [k \in {} |-> NIL]

MapPut(f, k, v) == [x \in (DOMAIN f) \cup {k} |-> IF x = k THEN v ELSE f[x]]

(***************************************************************************)
(* shard and index (pkg/manifest/index.go).  Where the code binds the      *)
(* result of a call to a local and reads it several times, the model hands *)
(* the result to a second operator (named ...Of, ...With, ...From).        *)
(***************************************************************************)
newShard == [manifests |-> <<>>, collated |-> FALSE, before |-> EmptyMap, after |-> EmptyMap]

shardInsert(l, m) == [l EXCEPT !.collated = FALSE, !.manifests = Append(@, m)]

\* collate that records the manifest before in both maps
collatedShard_bothBefore(sorted, count) ==
    [manifests |-> sorted,
     collated |-> TRUE,
     before |-> IF count > 1 THEN [m \in {sorted[i] : i \in 2..count} |->
                     sorted[(CHOOSE i \in 2..count : sorted[i] = m) - 1]]
                ELSE EmptyMap,
     after |-> IF count > 1 THEN [m \in {sorted[i] : i \in 2..count} |->
                     sorted[(CHOOSE i \in 2..count : sorted[i] = m) - 1]]
               ELSE EmptyMap]

\* the maps shard.collate builds over the sorted manifests
collatedShard(sorted, count) ==
    [manifests |-> sorted,
     collated |-> TRUE,
     before |-> IF count > 1 THEN [m \in {sorted[i] : i \in 2..count} |->
                     sorted[(CHOOSE i \in 2..count : sorted[i] = m) - 1]]
                ELSE EmptyMap,
     after |-> IF count > 1 THEN [m \in {sorted[i] : i \in 1..(count - 1)} |->
                     sorted[(CHOOSE i \in 1..(count - 1) : sorted[i] = m) + 1]]
               ELSE EmptyMap]

shardCollate(l) == collatedShard(sortSort(l.manifests, FALSE), Len(l.manifests))

shardNext(l, m) == IF m \in DOMAIN l.after THEN l.after[m] ELSE NIL

shardPrevious(l, m) == IF m \in DOMAIN l.before THEN l.before[m] ELSE NIL

newIndex == [all |-> newShard, byID |-> EmptyMap, notLive |-> EmptyMap, shard |-> EmptyMap]

\* index.shardOf: the shard of the selector's KGVN, or an error
shardOf(ix, target) ==
    IF target.kgvn \in DOMAIN ix.shard
    THEN [err |-> "", shard |-> ix.shard[target.kgvn]]
    ELSE [err |-> "empty", shard |-> newShard]

indexCollate(ix) ==
    [ix EXCEPT !.all = shardCollate(@),
               !.shard = [k \in DOMAIN ix.shard |-> shardCollate(ix.shard[k])]]

\* findOne that forgets the manifests it set aside as not live
findOne_notFound(ix, target, fastError) ==
    IF ID(target) \notin DOMAIN ix.byID THEN [err |-> "notFound", m |-> NIL]
    ELSE [err |-> "", m |-> ix.byID[ID(target)]]

findOne(ix, target, fastError) ==
    IF ID(target) \notin DOMAIN ix.byID
    THEN IF fastError THEN [err |-> "notFound", m |-> NIL]
         ELSE IF ID(target) \in DOMAIN ix.notLive THEN [err |-> "mustBeLive", m |-> NIL]
         ELSE [err |-> "notFound", m |-> NIL]
    ELSE [err |-> "", m |-> ix.byID[ID(target)]]

\* one iteration of the loop of index.insert that stores m
insertOne(ix, m) ==
    [ix EXCEPT !.byID = MapPut(@, ID(SelectorOf(m)), m),
               !.all = shardInsert(@, m),
               !.shard = MapPut(@, SelectorOf(m).kgvn,
                                shardInsert(IF SelectorOf(m).kgvn \in DOMAIN ix.shard
                                            THEN ix.shard[SelectorOf(m).kgvn]
                                            ELSE newShard, m))]

\* insert without the check for a repeated ID
RECURSIVE insertFrom_overwrite(_, _, _, _)
insertFrom_overwrite(ix, ms, k, collisions) ==
    IF k > Len(ms) THEN [index |-> ix, collisions |-> collisions]
    ELSE insertFrom_overwrite(
             IF ~IsLive(ms[k])
             THEN [ix EXCEPT !.notLive = MapPut(@, ID(SelectorOf(ms[k])), ms[k])]
             ELSE insertOne(ix, ms[k]),
             ms, k + 1, collisions)

\* insert that reports the first repeated ID only
RECURSIVE insertFrom_firstOnly(_, _, _, _)
insertFrom_firstOnly(ix, ms, k, collisions) ==
    IF k > Len(ms) THEN [index |-> ix, collisions |-> collisions]
    ELSE insertFrom_firstOnly(
             IF ~IsLive(ms[k])
             THEN [ix EXCEPT !.notLive = MapPut(@, ID(SelectorOf(ms[k])), ms[k])]
             ELSE IF ID(SelectorOf(ms[k])) \in DOMAIN ix.byID THEN ix
             ELSE insertOne(ix, ms[k]),
             ms, k + 1,
             IF IsLive(ms[k]) /\ ID(SelectorOf(ms[k])) \in DOMAIN ix.byID /\ collisions = <<>>
             THEN Append(collisions, ms[k]) ELSE collisions)

RECURSIVE insertFrom(_, _, _, _)
insertFrom(ix, ms, k, collisions) ==
    IF k > Len(ms) THEN [index |-> ix, collisions |-> collisions]
    ELSE insertFrom(
             IF ~IsLive(ms[k])
             THEN [ix EXCEPT !.notLive = MapPut(@, ID(SelectorOf(ms[k])), ms[k])]
             ELSE IF ID(SelectorOf(ms[k])) \in DOMAIN ix.byID THEN ix
             ELSE insertOne(ix, ms[k]),
             ms, k + 1,
             IF IsLive(ms[k]) /\ ID(SelectorOf(ms[k])) \in DOMAIN ix.byID
             THEN Append(collisions, ms[k]) ELSE collisions)

\* index.insert: the index after the call and the manifests it reports as collisions
insert(ix, ms) == insertFrom(ix, ms, 1, <<>>)

(***************************************************************************)
(* Lookups of Index (pkg/manifest/index.go).  c is Index.content, r is     *)
(* Index.relations.                                                        *)
(***************************************************************************)
FindOne(c, target) == findOne(c, target, FALSE)

\* FindMany that hands out the list of the shard itself
manyOfShard_alias(s) ==
    IF s.err # "" THEN [err |-> s.err, ms |-> <<>>, copied |-> TRUE]
    ELSE [err |-> "", ms |-> s.shard.manifests, copied |-> FALSE]

\* copied: the list returned has an array of its own
manyOfShard(s) ==
    IF s.err # "" THEN [err |-> s.err, ms |-> <<>>, copied |-> TRUE]
    ELSE [err |-> "", ms |-> s.shard.manifests, copied |-> TRUE]

manyOfOne(match) ==
    IF match.err # "" THEN [err |-> match.err, ms |-> <<>>, copied |-> TRUE]
    ELSE [err |-> "", ms |-> <<match.m>>, copied |-> TRUE]

\* the index after a caller wrote ms into the list FindMany(target) returned
writtenThrough(c, target, ms, copied) ==
    IF copied THEN c ELSE [c EXCEPT !.shard[target.kgvn].manifests = ms]

FindMany(c, target) ==
    IF IsWildcard(target) THEN manyOfShard(shardOf(c, target))
    ELSE manyOfOne(findOne(c, target, FALSE))

nextOf(s, target) == IF s.err # "" THEN NIL ELSE shardNext(s.shard, target)

Next(c, target) == nextOf(shardOf(c, SelectorOf(target)), target)

prevOf(s, target) == IF s.err # "" THEN NIL ELSE shardPrevious(s.shard, target)

Prev(c, target) == prevOf(shardOf(c, SelectorOf(target)), target)

RelatedIndex(r, target) ==
    IF target \in DOMAIN r THEN [err |-> "", index |-> r[target]]
    ELSE [err |-> "noRelations", index |-> newIndex]

isRelatedIn(rel, mustRelateTo) ==
    IF rel.err # "" THEN FALSE
    ELSE IF ~IsWildcard(mustRelateTo)
         THEN findOne(rel.index, mustRelateTo, TRUE).err = ""
         ELSE shardOf(rel.index, mustRelateTo).err = ""

isRelated(r, target, mustRelateTo) == isRelatedIn(RelatedIndex(r, target), mustRelateTo)

validOf(r, matches, mustRelateTo) ==
    IF matches.err # "" THEN [err |-> matches.err, ms |-> <<>>]
    ELSE [err |-> "",
          ms |-> SelectSeq(matches.ms, LAMBDA match : isRelated(r, match, mustRelateTo))]

FindManyWithRelation(c, r, target, mustRelateTo) ==
    validOf(r, FindMany(c, target), mustRelateTo)

(***************************************************************************)
(* Relation and MatchExpression (pkg/manifest/meta.go)                     *)
(***************************************************************************)
Rel(selector, matchIfRelatedTo) ==
    [selector |-> selector, matchIfRelatedTo |-> matchIfRelatedTo,
     matchExpression |-> <<>>, order |-> "", offset |-> 0, limit |-> 0]

\* the compare closure of MatchExpression.filter, on the publishAt p of the
\* manifest it is given
matchCompare(op, p, check) ==
    CASE op = "InYear" -> p.year = check
      [] op = "InMonth" -> p.month = check
      [] op = "OnDate" -> p.year = check[1] /\ p.month = check[2] /\ p.day = check[3]
      [] OTHER -> FALSE

\* a manifest without publishAt has a nil Meta.PublishAt, which the compare
\* closure dereferences
filter(expr, search) ==
    IF expr.operator \notin {"InYear", "InMonth", "OnDate"}
    THEN [err |-> "unsupportedOperator", ms |-> <<>>]
    ELSE IF expr.values # <<>> /\ \E i \in 1..Len(search) :
                 Catalogue[search[i]].publishAt = NoPublishAt
    THEN [err |-> "panic", ms |-> <<>>]
    ELSE [err |-> "",
          ms |-> SelectSeq(search, LAMBDA potential :
                     \E i \in 1..Len(expr.values) :
                         matchCompare(expr.operator, Catalogue[potential].publishAt,
                                      expr.values[i]))]

\* the loop over MatchIfRelatedTo, from entry k; matched is the result of
\* FindManyWithRelation for entry k
RECURSIVE accumulateRelated(_, _, _, _, _)
accumulateWith(c, r, rel, k, validMatches, matched) ==
    IF matched.err # "" THEN [err |-> matched.err, ms |-> <<>>]
    ELSE accumulateRelated(c, r, rel, k + 1, validMatches \o matched.ms)

accumulateRelated(c, r, rel, k, validMatches) ==
    IF k > Len(rel.matchIfRelatedTo) THEN [err |-> "", ms |-> validMatches]
    ELSE accumulateWith(c, r, rel, k, validMatches,
                        FindManyWithRelation(c, r, rel.selector, rel.matchIfRelatedTo[k]))

\* the loop over MatchExpression, from entry k
RECURSIVE narrow(_, _, _)
narrowWith(rel, k, filtered) ==
    IF filtered.err # "" THEN [err |-> filtered.err, ms |-> <<>>]
    ELSE narrow(rel, k + 1, filtered.ms)

narrow(rel, k, validMatches) ==
    IF k > Len(rel.matchExpression) \/ Len(validMatches) = 0
    THEN [err |-> "", ms |-> validMatches]
    ELSE narrowWith(rel, k, filter(rel.matchExpression[k], validMatches))

\* the limiting and offsets at the end of Relation.resolve
windowOf(validMatches, offset, limit) == SubSeq(validMatches, offset + 1, limit)

windowFrom(rel, validMatches, total, offset) ==
    windowOf(validMatches, offset,
             IF rel.limit = 0 THEN total
             ELSE IF offset + rel.limit > total THEN total
             ELSE offset + rel.limit)

window(rel, validMatches) ==
    IF rel.offset = 0 /\ rel.limit = 0 THEN validMatches
    ELSE windowFrom(rel, validMatches, Len(validMatches),
                    IF rel.offset > Len(validMatches) THEN Len(validMatches) ELSE rel.offset)

\* the offset and the limit after the clamping of Relation.resolve
clampedOffset(rel, total) == IF rel.offset > total THEN total ELSE rel.offset

clampedLimit(rel, total, offset) ==
    IF rel.limit = 0 THEN total
    ELSE IF offset + rel.limit > total THEN total
    ELSE offset + rel.limit

\* validMatches[offset:limit] panics when offset is negative or above limit
windowPanics(rel, total) ==
    /\ ~(rel.offset = 0 /\ rel.limit = 0)
    /\ \/ clampedOffset(rel, total) < 0
       \/ clampedLimit(rel, total, clampedOffset(rel, total)) < clampedOffset(rel, total)

resolveNarrowed(rel, narrowed) ==
    IF narrowed.err # "" THEN [err |-> narrowed.err, ms |-> <<>>]
    ELSE IF windowPanics(rel, Len(narrowed.ms)) THEN [err |-> "panic", ms |-> <<>>]
    ELSE [err |-> "", ms |-> window(rel, sortSort(narrowed.ms, rel.order = "desc"))]

resolveAccumulated(rel, accumulated) ==
    IF accumulated.err # "" THEN [err |-> accumulated.err, ms |-> <<>>]
    ELSE resolveNarrowed(rel, narrow(rel, 1, accumulated.ms))

resolveSeeded(c, r, rel, seed) ==
    IF seed.err # "" THEN [err |-> seed.err, ms |-> <<>>]
    ELSE resolveAccumulated(rel, accumulateRelated(c, r, rel, 1, seed.ms))

resolve(c, r, rel, context, mustBeRelatedToContext) ==
    resolveSeeded(c, r, rel,
        IF mustBeRelatedToContext
        THEN FindManyWithRelation(c, r, rel.selector, SelectorOf(context))
        ELSE IF Len(rel.matchIfRelatedTo) = 0
        THEN FindMany(c, rel.selector)
        ELSE [err |-> "", ms |-> <<>>])

Resolve(c, r, rel) == resolve(c, r, rel, NIL, FALSE)

(***************************************************************************)
(* Index.addRelation and Index.Collate (pkg/manifest/index.go)             *)
(***************************************************************************)
ensureIndex(r, m) == IF m \in DOMAIN r THEN r ELSE MapPut(r, m, newIndex)

\* i.relations[target].insert(parent), once i.relations[target] exists
insertInto(r, target, parent) == [r EXCEPT ![target] = insert(@, <<parent>>).index]

\* addRelation without the inverse relationship
relateBack_oneWay(r, parent, targets, k) == r

RECURSIVE relateBack(_, _, _, _)
relateBack(r, parent, targets, k) ==
    IF k > Len(targets) THEN r
    ELSE relateBack(insertInto(ensureIndex(r, targets[k]), targets[k], parent),
                    parent, targets, k + 1)

\* addRelation once every manifest was looked up: found[idx] is the result
\* of FindOne for manifests[idx], r1 the table with an entry for parent
addRelationFound(r1, parent, found) ==
    IF \E idx \in 1..Len(found) : found[idx].err # ""
    THEN [err |-> "addRelation", relations |-> r1]
    ELSE [err |-> "",
          relations |-> relateBack(
              [r1 EXCEPT ![parent] = insert(@, [idx \in 1..Len(found) |-> found[idx].m]).index],
              parent, [idx \in 1..Len(found) |-> found[idx].m], 1)]

addRelation(c, r, parent, manifests) ==
    addRelationFound(ensureIndex(r, parent), parent,
                     [idx \in 1..Len(manifests) |-> FindOne(c, SelectorOf(manifests[idx]))])

\* the loop over relations inside one Collate pass, from relation k
RECURSIVE resolveAll(_, _, _, _, _)
resolveAllWith(c, r, rels, k, related, expanded) ==
    IF ~IsWildcard(rels[k].selector) /\ expanded.err # ""
    THEN [err |-> expanded.err, ms |-> related]
    ELSE resolveAll(c, r, rels, k + 1, related \o expanded.ms)

resolveAll(c, r, rels, k, related) ==
    IF k > Len(rels) THEN [err |-> "", ms |-> related]
    ELSE resolveAllWith(c, r, rels, k, related, Resolve(c, r, rels[k]))

\* one pass of the Collate loop over i.content.all.manifests, from item k
RECURSIVE collatePass(_, _, _, _, _)
collateAdded(d, c, k, totalCount, count, added) ==
    IF added.err # ""
    THEN [err |-> added.err, relations |-> added.relations, totalCount |-> totalCount]
    ELSE collatePass(d, c, added.relations, k + 1, totalCount + count)

collateItem(d, c, r, k, totalCount, item, related) ==
    IF related.err # ""
    THEN [err |-> related.err, relations |-> r, totalCount |-> totalCount]
    ELSE IF item \in DOMAIN r /\ Cardinality(DOMAIN r[item].byID) = Len(related.ms)
    THEN collatePass(d, c, r, k + 1, totalCount + Len(related.ms))
    ELSE collateAdded(d, c, k, totalCount, Len(related.ms),
                      addRelation(c, r, item, related.ms))

collatePass(d, c, r, k, totalCount) ==
    IF k > Len(c.all.manifests) THEN [err |-> "", relations |-> r, totalCount |-> totalCount]
    ELSE IF ~Catalogue[c.all.manifests[k]].hasMeta THEN collatePass(d, c, r, k + 1, totalCount)
    ELSE collateItem(d, c, r, k, totalCount, c.all.manifests[k],
                     resolveAll(c, r, d[c.all.manifests[k]], 1, <<>>))

RECURSIVE collateLoop(_, _, _, _, _, _)
\* the loop without lastCount = totalCount
collateNextPass_staleCount(d, c, totalCount, passes, pass) ==
    IF pass.err # "" THEN [err |-> pass.err, relations |-> pass.relations, passes |-> passes]
    ELSE collateLoop(d, c, pass.relations, -1, pass.totalCount, passes + 1)

collateNextPass(d, c, totalCount, passes, pass) ==
    IF pass.err # "" THEN [err |-> pass.err, relations |-> pass.relations, passes |-> passes]
    ELSE collateLoop(d, c, pass.relations, totalCount, pass.totalCount, passes + 1)

collateLoop(d, c, r, lastCount, totalCount, passes) ==
    IF lastCount = totalCount THEN [err |-> "", relations |-> r, passes |-> passes]
    ELSE IF passes >= MaxPasses THEN [err |-> "unfinished", relations |-> r, passes |-> passes]
    ELSE collateNextPass(d, c, totalCount, passes, collatePass(d, c, r, 1, 0))

collateEnd(c, loop) ==
    IF loop.err # ""
    THEN [err |-> loop.err, content |-> c, relations |-> loop.relations, passes |-> loop.passes]
    ELSE [err |-> "",
          content |-> indexCollate(c),
          relations |-> [m \in DOMAIN loop.relations |-> indexCollate(loop.relations[m])],
          passes |-> loop.passes]

\* Index.Collate: the error it returns and the index it leaves
collate(d, c) == collateEnd(c, collateLoop(d, c, EmptyMap, -1, 0, 0))

(***************************************************************************)
(* The relations a run may declare, and the runs of the index              *)
(***************************************************************************)
Range(s) == {s[i] : i \in 1..Len(s)}

RelationChoices ==
    { Rel(Sel(1, Star), <<>>),
      Rel(Sel(1, 2), <<>>),
      Rel(Sel(2, 1), <<>>),
      Rel(Sel(1, 3), <<>>),
      Rel(Sel(1, Star), <<Sel(2, 1)>>) }

\* only a live manifest is ever stored and so asked for its relations
Declarations ==
    {d \in [Manifests -> {<<>>} \cup {<<rel>> : rel \in RelationChoices}] :
        /\ \A m \in Manifests : ~IsLive(m) => d[m] = <<>>
        /\ Cardinality({m \in Manifests : d[m] # <<>>}) <= MaxDecl}

\* the argument lists of Insert: every manifest of a run is read from its
\* own file or line, so no pointer is handed over twice
Batches ==
    {ms \in UNION {[1..k -> Manifests] : k \in 1..MaxBatch} :
        \A i, j \in 1..Len(ms) : i # j => ms[i] # ms[j]}

\* the argument lists of Insert in the runs that look things up
LibraryBatches ==
    {ms \in UNION {[1..k -> Library] : k \in 1..MaxBatch} :
        \A i, j \in 1..Len(ms) : i # j => ms[i] # ms[j]}

\* no lookup was made yet
NoLookup ==
    [op |-> "none", sel |-> Sel(0, 0), m |-> NIL, err |-> "", ms |-> <<>>, found |-> NIL,
     out |-> FALSE, copied |-> TRUE, check |-> Sel(0, 0), rel |-> Rel(Sel(0, 0), <<>>),
     less |-> <<>>]

\* the outcome of NewIndex
NoResult == [op |-> "NewIndex", err |-> "", collisions |-> <<>>, dropped |-> {}, passes |-> 0]

\* Insert that leaves the relation table as it is
discarded_kept(r) == r

\* i.relations = nil: the relation table after Insert
discarded(r) == EmptyMap

\* Index.Insert(manifests...)
InsertDone(ms, done) ==
    /\ relations' = discarded(relations)
    /\ content' = done.index
    /\ result' = [op |-> "Insert",
                  err |-> IF Len(done.collisions) > 0 THEN "collisions" ELSE "",
                  collisions |-> done.collisions,
                  dropped |-> DOMAIN relations,
                  passes |-> 0]
    /\ collided' = collided \cup Range(done.collisions)
    /\ inserted' = inserted \cup Range(ms)
    /\ lookup' = NoLookup
    /\ UNCHANGED <<decl, notIndex>>

Insert(ms) ==
    /\ Range(ms) \cap inserted = {}
    /\ Cardinality(inserted) + Len(ms) <= MaxInserted
    /\ InsertDone(ms, insert(content, ms))

\* Index.Collate()
CollateDone(done) ==
    /\ content' = done.content
    /\ relations' = done.relations
    /\ result' = [op |-> "Collate", err |-> done.err, collisions |-> <<>>, dropped |-> {},
                  passes |-> done.passes]
    /\ lookup' = NoLookup
    /\ UNCHANGED <<decl, inserted, collided, notIndex>>

Collate == CollateDone(collate(decl, content))

IndexNext ==
    \/ \E ms \in Batches : Insert(ms)
    \/ Collate

\* Index.Insert(m) for the next note of the archive, or a later one
InsertNote(m) ==
    /\ \A n \in inserted : n < m
    /\ (m - 9) - Cardinality(inserted) <= MaxSkipped
    /\ InsertDone(<<m>>, insert(content, <<m>>))

\* the runs that fill one long shard
ArchiveNext ==
    \/ \E m \in Archive : InsertNote(m)
    \/ Collate

\* the selectors a caller may ask for: the posts and topics by name, every
\* post or topic, and a KGVN nothing was inserted for
Selectors == {Sel(k, n) : k \in 1..3, n \in {Star, 1, 2, 3, 4}}

Looked(op, sel, m) == [NoLookup EXCEPT !.op = op, !.sel = sel, !.m = m]

\* a caller calls Index.FindOne(target)
foundOne(target, match) ==
    /\ lookup' = [Looked("FindOne", target, NIL) EXCEPT !.err = match.err, !.found = match.m]
    /\ UNCHANGED <<decl, content, relations, inserted, collided, result, notIndex>>

FindOneCall(target) == foundOne(target, FindOne(content, target))

\* a caller calls Index.FindMany(target)
foundMany(target, matches) ==
    /\ lookup' = [Looked("FindMany", target, NIL) EXCEPT !.err = matches.err,
                                                        !.ms = matches.ms,
                                                        !.copied = matches.copied]
    /\ UNCHANGED <<decl, content, relations, inserted, collided, result, notIndex>>

FindManyCall(target) == foundMany(target, FindMany(content, target))

\* a caller calls Index.Next(target) or Index.Prev(target)
NextCall(target) ==
    /\ lookup' = [Looked("Next", SelectorOf(target), target) EXCEPT !.found = Next(content, target)]
    /\ UNCHANGED <<decl, content, relations, inserted, collided, result, notIndex>>

PrevCall(target) ==
    /\ lookup' = [Looked("Prev", SelectorOf(target), target) EXCEPT !.found = Prev(content, target)]
    /\ UNCHANGED <<decl, content, relations, inserted, collided, result, notIndex>>

\* a caller calls m.Less(compare)
LessCall(m, compare) ==
    /\ lookup' = [Looked("Less", SelectorOf(m), m) EXCEPT !.found = compare,
                                                         !.out = Less(m, compare)]
    /\ UNCHANGED <<decl, content, relations, inserted, collided, result, notIndex>>

\* manifest.New: the error of parsing manifest m, which declares no generator
\* and no relation
manifestNew(m) == Validate(SelectorOf(m))

\* manifest.New of one manifest and Index.Insert of what it returns
Load(m) ==
    /\ m \notin inserted
    /\ Cardinality(inserted) < MaxInserted
    /\ IF manifestNew(m) = ""
       THEN InsertDone(<<m>>, insert(content, <<m>>))
       ELSE /\ result' = [op |-> "New", err |-> manifestNew(m), collisions |-> <<>>,
                           dropped |-> {}, passes |-> 0]
            /\ lookup' = NoLookup
            /\ UNCHANGED <<decl, content, relations, inserted, collided, notIndex>>

\* the relation every manifest of KGVN k published in June 2010
June(k) ==
    [Rel(Sel(k, Star), <<>>) EXCEPT
        !.matchExpression = <<[operator |-> "InYear", values |-> <<2010>>],
                              [operator |-> "InMonth", values |-> <<6>>]>>]

\* a caller calls Relation.Resolve(index)
resolved(rel, matches) ==
    /\ lookup' = [Looked("Resolve", rel.selector, NIL) EXCEPT !.err = matches.err,
                                                       !.ms = matches.ms,
                                                       !.rel = rel]
    /\ UNCHANGED <<decl, content, relations, inserted, collided, result, notIndex>>

ResolveCall(rel) == resolved(rel, Resolve(content, relations, rel))

\* a caller calls DynamicRelation.Resolve(index, context) for a relation with
\* MatchIfRelatedToContext
resolvedInContext(rel, context, matches) ==
    /\ lookup' = [Looked("ResolveInContext", rel.selector, context) EXCEPT
                      !.err = matches.err, !.ms = matches.ms, !.rel = rel]
    /\ UNCHANGED <<decl, content, relations, inserted, collided, result, notIndex>>

ResolveInContext(rel, context) ==
    /\ context \in Range(content.all.manifests)
    /\ resolvedInContext(rel, context, resolve(content, relations, rel, context, TRUE))

\* a caller calls Index.RelatedIndex(target)
RelatedIndexCall(target) ==
    /\ lookup' = [Looked("RelatedIndex", SelectorOf(target), target) EXCEPT
                      !.err = RelatedIndex(relations, target).err]
    /\ UNCHANGED <<decl, content, relations, inserted, collided, result, notIndex>>

\* the declarations of the runs that resolve relations: the topic alone
\* declares one, or no manifest does
RelationDecls == {d \in Declarations : \A m \in Manifests \ {3} : d[m] = <<>>}

\* the relations a caller resolves: every post related to the topic, to the
\* topic or to any topic, and the second post if related to the topic
Queries ==
    { Rel(Sel(1, Star), <<Sel(2, 1)>>),
      Rel(Sel(1, Star), <<Sel(2, 1), Sel(2, Star)>>),
      Rel(Sel(1, 2), <<Sel(2, 1)>>) }

\* every post, from an offset on and up to a limit: Offset and Limit are
\* ints no validation looks at
Windows ==
    {[Rel(Sel(1, Star), <<>>) EXCEPT !.offset = offset, !.limit = limit] :
        offset \in -1..MaxWindow, limit \in -1..MaxWindow}

\* the runs that resolve relations
RelationNext ==
    \/ \E ms \in Batches : Insert(ms)
    \/ Collate
    \/ \E rel \in Queries \cup Windows : ResolveCall(rel)
    \/ \E rel \in Queries, context \in Manifests : ResolveInContext(rel, context)
    \/ \E target \in Manifests : RelatedIndexCall(target)

\* a caller calls s.Matches(check)
MatchesCall(s, check) ==
    /\ lookup' = [Looked("Matches", s, NIL) EXCEPT !.check = check, !.out = Matches(s, check)]
    /\ UNCHANGED <<decl, content, relations, inserted, collided, result, notIndex>>

\* the runs that compare selectors
SelectorNext == \E s, check \in Selectors : MatchesCall(s, check)

\* the manifests a list to sort may hold: those of the library and a note,
\* which index.all keeps in one list
Shelf == Library \cup {EarlyNote}

\* sort.Sort asks manifestList.Less(i, j) for every two places of the list l
LessAtCall(l) ==
    /\ lookup' = [Looked("LessAt", SelectorOf(l[1]), l[1]) EXCEPT
                      !.ms = l,
                      !.less = [i \in 1..Len(l) |-> [j \in 1..Len(l) |-> LessAt(l, i, j, FALSE)]]]
    /\ UNCHANGED <<decl, content, relations, inserted, collided, result, notIndex>>

\* the runs that compare the manifests of a list
OrderNext == \E a, b, c \in Shelf : LessAtCall(<<a, b, c>>)

\* the caller holds the list a FindMany for a wildcard selector returned
Holding ==
    /\ lookup.op \in {"FindMany", "Mutate"}
    /\ IsWildcard(lookup.sel)
    /\ lookup.err = ""

\* the caller writes into the list it holds
Mutated(ms) ==
    /\ lookup' = [lookup EXCEPT !.op = "Mutate", !.ms = ms]
    /\ content' = writtenThrough(content, lookup.sel, ms, lookup.copied)
    /\ UNCHANGED <<decl, relations, inserted, collided, result, notIndex>>

\* the caller swaps two entries of the list, as a sort does
Reorder(i, j) ==
    /\ Holding
    /\ i < j
    /\ j <= Len(lookup.ms)
    /\ Mutated([lookup.ms EXCEPT ![i] = lookup.ms[j], ![j] = lookup.ms[i]])

\* the caller assigns an entry of the list
Overwrite(i, m) ==
    /\ Holding
    /\ i <= Len(lookup.ms)
    /\ lookup.ms[i] # m
    /\ Mutated([lookup.ms EXCEPT ![i] = m])

\* the runs of a caller that changes the lists it gets
MutateNext ==
    \/ \E ms \in LibraryBatches : Insert(ms)
    \/ Collate
    \/ \E target \in Selectors : FindManyCall(target)
    \/ \E target \in Library : NextCall(target)
    \/ \E target \in Library : PrevCall(target)
    \/ \E i, j \in 1..MaxInserted : Reorder(i, j)
    \/ \E i \in 1..MaxInserted, m \in Library \cup {NIL} : Overwrite(i, m)

\* the runs that parse what they insert
IntakeNext ==
    \/ \E m \in Library \cup Drafts : Load(m)
    \/ Collate
    \/ \E target \in Selectors : FindOneCall(target)
    \/ \E target \in Selectors : FindManyCall(target)

\* the runs that look things up
LookupNext ==
    \/ \E ms \in LibraryBatches : Insert(ms)
    \/ Collate
    \/ \E target \in Selectors : FindOneCall(target)
    \/ \E target \in Selectors : FindManyCall(target)
    \/ \E target \in Library : NextCall(target)
    \/ \E target \in Library : PrevCall(target)
    \/ \E k \in 1..3 : ResolveCall(June(k))
    \/ \E m, compare \in Library : LessCall(m, compare)

(***************************************************************************)
(* Properties of the index                                                 *)
(***************************************************************************)
Collated == result.op = "Collate" /\ result.err = ""

\* the relation set of a manifest: the manifests of its relation index
RelationSet(m) ==
    IF m \in DOMAIN relations THEN {relations[m].byID[id] : id \in DOMAIN relations[m].byID}
    ELSE {}

\* C1 as stated: after Collate, FindOne(m.selector) returns m for every live
\* manifest m that was passed to Insert.
C1_FindOneEveryInserted ==
    Collated =>
        \A m \in inserted :
            IsLive(m) => FindOne(content, SelectorOf(m)) = [err |-> "", m |-> m]

\* C1 amended: after Collate, FindOne(m.selector) returns m for every live
\* manifest m that was passed to Insert and that no Insert reported as a
\* collision; for a manifest reported as a collision it returns the manifest of
\* the same ID that was stored before it.
C1_FindOneEveryStored ==
    Collated =>
        \A m \in inserted :
            IsLive(m) =>
                LET found == FindOne(content, SelectorOf(m)) IN
                /\ found.err = ""
                /\ m \notin collided => found.m = m
                /\ m \in collided =>
                      /\ found.m # m
                      /\ found.m \in inserted \ collided
                      /\ SelectorOf(found.m) = SelectorOf(m)

C1_Witness ==
    /\ Collated
    /\ \E m \in inserted \ collided : IsLive(m) /\ FindOne(content, SelectorOf(m)).m = m
    /\ \E m \in collided : FindOne(content, SelectorOf(m)).m # m

\* C2: after Collate (whatever it returned), if a is in the relation set of b
\* then b is in the relation set of a.
C2_RelationSymmetry ==
    result.op = "Collate" =>
        \A a, b \in Manifests : a \in RelationSet(b) => b \in RelationSet(a)

C2_Witness ==
    /\ Collated
    /\ \E a, b \in Manifests : a # b /\ a \in RelationSet(b) /\ b \in RelationSet(a)

\* C3: after Collate, the relation set of every stored manifest contains every
\* manifest that one of its declared relations, imports or children resolves to.
C3_RelationsComplete ==
    Collated =>
        \A k \in 1..Len(content.all.manifests) :
            LET m == content.all.manifests[k] IN
            \A j \in 1..Len(decl[m]) :
                Range(Resolve(content, relations, decl[m][j]).ms) \subseteq RelationSet(m)

\* C11: an Insert call that is handed live manifests whose ID a live manifest
\* of the index already holds returns the collisions error, and the error
\* lists every one of these manifests of the call.
C11_EveryCollisionListed ==
    [][(result'.op = "Insert" /\ inserted' # inserted) =>
          \A m \in inserted' \ inserted :
              (IsLive(m) /\ ID(SelectorOf(m)) \in DOMAIN content.byID) =>
                  (result'.err = "collisions" /\ m \in Range(result'.collisions))]_vars

C11_Witness ==
    /\ result.op = "Insert"
    /\ result.err = "collisions"
    /\ Len(result.collisions) >= 2
    /\ \A k \in 1..Len(result.collisions) : content.byID[ID(SelectorOf(result.collisions[k]))] = 1

\* the manifests handed to Insert that were not live then
NotLive == {m \in inserted : ~IsLive(m)}

\* C12 as stated: a manifest that was not live when it was inserted is never
\* returned by FindOne or FindMany, and FindOne on its selector fails with the
\* must-be-live error.
C12_NotLiveRefused ==
    \A m \in NotLive :
        /\ lookup.op = "FindOne" => lookup.found # m
        /\ lookup.op = "FindMany" => m \notin Range(lookup.ms)
        /\ (lookup.op = "FindOne" /\ lookup.sel = SelectorOf(m)) => lookup.err = "mustBeLive"

\* C12 amended: a manifest that was not live when it was inserted is never
\* returned by FindOne or FindMany; FindOne on its selector fails with the
\* must-be-live error unless a live manifest of the same ID is stored, which
\* FindOne then returns.
C12_NotLiveRefusedOrTwin ==
    \A m \in NotLive :
        /\ lookup.op = "FindOne" => lookup.found # m
        /\ lookup.op = "FindMany" => m \notin Range(lookup.ms)
        /\ (lookup.op = "FindOne" /\ lookup.sel = SelectorOf(m)) =>
              IF \E twin \in inserted : IsLive(twin) /\ SelectorOf(twin) = SelectorOf(m)
              THEN /\ lookup.err = ""
                   /\ IsLive(lookup.found)
                   /\ lookup.found \in inserted
                   /\ SelectorOf(lookup.found) = SelectorOf(m)
              ELSE lookup.err = "mustBeLive"

C12_Witness ==
    /\ \E m \in NotLive : Catalogue[m].live
    /\ \E m \in NotLive : ~Catalogue[m].live /\ lookup.sel = SelectorOf(m)
    /\ lookup.op = "FindOne"
    /\ lookup.err = "mustBeLive"

\* the manifests of the shards that are not at an end of their shard
Inner ==
    UNION {{content.shard[k].manifests[i] : i \in 2..(Len(content.shard[k].manifests) - 1)} :
              k \in DOMAIN content.shard}

\* C13: after Collate, Next(Prev(m)) is m and Prev(Next(m)) is m for every
\* manifest m of a shard that is neither the first nor the last of the shard.
C13_NextPrevInverse ==
    Collated =>
        \A m \in Inner :
            /\ Prev(content, m) # NIL
            /\ Next(content, m) # NIL
            /\ Next(content, Prev(content, m)) = m
            /\ Prev(content, Next(content, m)) = m

C13_Witness ==
    /\ Collated
    /\ lookup.op = "Prev"
    /\ lookup.m \in Inner
    /\ lookup.found # NIL
    /\ Next(content, lookup.found) = lookup.m

\* the manifests of the shard of KGVN k
Stored(k) == Range(content.shard[k].manifests)

\* every manifest of the shard has a publish time, and no two have the same
Dated(k) ==
    \A m, n \in Stored(k) :
        PublishAt(m) # 0 /\ (m # n => PublishAt(m) # PublishAt(n))

\* the manifest of the set that was published next after m, next before m
Later(ms, m) ==
    IF \E n \in ms : PublishAt(n) > PublishAt(m)
    THEN CHOOSE n \in ms : /\ PublishAt(n) > PublishAt(m)
                           /\ \A o \in ms : PublishAt(o) > PublishAt(m) =>
                                                 PublishAt(n) <= PublishAt(o)
    ELSE NIL

Earlier(ms, m) ==
    IF \E n \in ms : PublishAt(n) < PublishAt(m)
    THEN CHOOSE n \in ms : /\ PublishAt(n) < PublishAt(m)
                           /\ \A o \in ms : PublishAt(o) < PublishAt(m) =>
                                                 PublishAt(n) >= PublishAt(o)
    ELSE NIL

\* C14: after Collate, Next(m) is the manifest of m's shard published next
\* after m and Prev(m) the one published next before it, when the manifests of
\* the shard have distinct publish times; Next of the latest, Prev of the
\* earliest and Next and Prev of a manifest whose KGVN has no shard are nil.
C14_NextPrevByPublishTime ==
    (Collated /\ lookup.op \in {"Next", "Prev"}) =>
        IF lookup.sel.kgvn \notin DOMAIN content.shard THEN lookup.found = NIL
        ELSE (lookup.m \in Stored(lookup.sel.kgvn) /\ Dated(lookup.sel.kgvn)) =>
                 lookup.found = IF lookup.op = "Next"
                                THEN Later(Stored(lookup.sel.kgvn), lookup.m)
                                ELSE Earlier(Stored(lookup.sel.kgvn), lookup.m)

C14_Witness ==
    /\ Collated
    /\ lookup.op = "Next"
    /\ lookup.sel.kgvn \in DOMAIN content.shard
    /\ Cardinality(Stored(lookup.sel.kgvn)) = 3
    /\ Dated(lookup.sel.kgvn)
    /\ lookup.m \in Stored(lookup.sel.kgvn)
    /\ lookup.found # NIL
    /\ PublishAt(lookup.found) > PublishAt(lookup.m)

\* C15: a Collate that follows a Collate, with no Insert in between, leaves
\* the order of every shard (and of the list of all manifests) as it was.
C15_RepeatCollateKeepsOrder ==
    [][(Collated /\ result'.op = "Collate") =>
          /\ content'.all.manifests = content.all.manifests
          /\ \A k \in DOMAIN content.shard :
                 content'.shard[k].manifests = content.shard[k].manifests]_vars

\* the manifests of the shard of KGVN k that were published in June 2010
InJune(k) ==
    IF k \notin DOMAIN content.shard THEN {}
    ELSE {m \in Stored(k) : Catalogue[m].publishAt.year = 2010 /\ Catalogue[m].publishAt.month = 6}

\* C16: resolving a relation with a wildcard selector and the matchExpression
\* InYear [2010], InMonth [6] returns exactly the manifests of the shard that
\* were published in June 2010, the earlier before the later.
C16_JuneExactlyAscending ==
    lookup.op = "Resolve" =>
        /\ lookup.err # "panic"
        /\ Range(lookup.ms) = InJune(lookup.sel.kgvn)
        /\ Len(lookup.ms) = Cardinality(InJune(lookup.sel.kgvn))
        /\ \A i, j \in 1..Len(lookup.ms) : i < j => PublishAt(lookup.ms[i]) < PublishAt(lookup.ms[j])

\* one of the two manifests of the last Less call has no publish time
Undated == PublishAt(lookup.m) = 0 \/ PublishAt(lookup.found) = 0

\* C17 as stated: a.Less(b) holds exactly when a was published later than b,
\* and exactly when the ID of a is before the ID of b if one of the two has no
\* publish time.
C17_NewerIsLess ==
    lookup.op = "Less" =>
        (lookup.out <=> IF Undated
                        THEN ID(SelectorOf(lookup.m)) < ID(SelectorOf(lookup.found))
                        ELSE PublishAt(lookup.m) > PublishAt(lookup.found))

\* C17 amended: a.Less(b) holds exactly when a was published earlier than b
\* (the order is ascending, older is less), and exactly when the ID of a is
\* before the ID of b if one of the two has no publish time.
C17_OlderIsLess ==
    lookup.op = "Less" =>
        (lookup.out <=> IF Undated
                        THEN ID(SelectorOf(lookup.m)) < ID(SelectorOf(lookup.found))
                        ELSE PublishAt(lookup.m) < PublishAt(lookup.found))

C17_Witness ==
    /\ lookup.op = "Less"
    /\ lookup.out
    /\ ~Undated
    /\ PublishAt(lookup.m) < PublishAt(lookup.found)

\* C30: Manifest.Less is a strict weak order over any list of manifests, also
\* one that holds manifests with and manifests without a publish time: no
\* manifest is less than itself, no two are each less than the other, and a
\* manifest less than a second that is less than a third is less than the third.
C30_StrictWeakOrder ==
    lookup.op = "LessAt" =>
        \A i, j, k \in 1..Len(lookup.ms) :
            /\ ~lookup.less[i][i]
            /\ ~(lookup.less[i][j] /\ lookup.less[j][i])
            /\ (lookup.less[i][j] /\ lookup.less[j][k]) => lookup.less[i][k]

\* C18: a manifest whose selector name is the wildcard is rejected by
\* validation, so no manifest the index stores has the wildcard as its name.
C18_WildcardNeverStored ==
    /\ \A m \in Range(content.all.manifests) : ~IsWildcard(SelectorOf(m))
    /\ \A id \in DOMAIN content.byID : ~IsWildcard(SelectorOf(content.byID[id]))
    /\ \A m \in Drafts : IsWildcard(SelectorOf(m)) => m \notin inserted

\* C19: a step in which the caller reorders or assigns the list FindMany
\* returned for a wildcard selector leaves the stored order of every shard as
\* it was, and with it the result of every FindOne, FindMany, Next and Prev.
C19_CallerMutationKept ==
    [][lookup'.op = "Mutate" =>
        /\ content'.all.manifests = content.all.manifests
        /\ \A k \in DOMAIN content.shard :
               content'.shard[k].manifests = content.shard[k].manifests
        /\ \A target \in Selectors :
               /\ FindOne(content', target) = FindOne(content, target)
               /\ FindMany(content', target) = FindMany(content, target)
        /\ \A m \in Library :
               /\ Next(content', m) = Next(content, m)
               /\ Prev(content', m) = Prev(content, m)]_vars

C19_Witness ==
    /\ lookup.op = "Mutate"
    /\ Len(lookup.ms) >= 2
    /\ Collated
    /\ lookup.ms # content.shard[lookup.sel.kgvn].manifests
    /\ \E m \in Range(lookup.ms) \cap Library : Next(content, m) # NIL

\* C23: the list a relation resolves to holds no manifest more than once,
\* also when a candidate is related to several of the matchIfRelatedTo
\* selectors, or to the context and to a matchIfRelatedTo selector.
C23_ResolvedOnce ==
    lookup.op \in {"Resolve", "ResolveInContext"} =>
        \A i, j \in 1..Len(lookup.ms) : i # j => lookup.ms[i] # lookup.ms[j]

\* the sorted candidate list of the relation last resolved
Candidates == Resolve(content, relations, [lookup.rel EXCEPT !.offset = 0, !.limit = 0])

Least(a, b) == IF a < b THEN a ELSE b

\* the elements of list from index lo up to but excluding index hi, the
\* first index being 0
Slice(list, lo, hi) == IF hi <= lo THEN <<>> ELSE [i \in 1..(hi - lo) |-> list[lo + i]]

\* C24: for a sorted candidate list of length total, resolving returns the
\* elements from index min(offset, total) up to but excluding
\* min(offset + limit, total), and up to total when limit is 0.
C24_Window ==
    (lookup.op = "Resolve" /\ lookup.rel \in Windows /\ Candidates.err = "") =>
        /\ lookup.err = ""
        /\ lookup.ms = Slice(Candidates.ms,
                             Least(lookup.rel.offset, Len(Candidates.ms)),
                             IF lookup.rel.limit = 0 THEN Len(Candidates.ms)
                             ELSE Least(lookup.rel.offset + lookup.rel.limit,
                                        Len(Candidates.ms)))

\* C25: once Insert has run after a Collate, the relation table of that
\* Collate is gone: until Collate runs again RelatedIndex fails for every
\* manifest.
C25_InsertDiscardsRelations ==
    (result.op = "Insert" /\ lookup.op = "RelatedIndex") => lookup.err # ""

C25_Witness ==
    /\ result.op = "Insert"
    /\ lookup.op = "RelatedIndex"
    /\ lookup.m \in result.dropped
    /\ lookup.err # ""

\* C26: Collate terminates: the loop over the passes ends, because the count
\* of a pass equals the count of the pass before or because Collate returns
\* an error, before the passes that are followed run out.
C26_CollateTerminates == result.op = "Collate" => result.err # "unfinished"

C26_Witness ==
    /\ result.op = "Collate"
    /\ result.err = ""
    /\ result.passes >= 3

\* C22: a.Matches(b) holds if and only if b.Matches(a) holds.
C22_MatchesSymmetric ==
    lookup.op = "Matches" => (lookup.out <=> Matches(lookup.check, lookup.sel))

C22_Witness ==
    /\ lookup.op = "Matches"
    /\ lookup.out
    /\ IsWildcard(lookup.check)
    /\ ~IsWildcard(lookup.sel)

(***************************************************************************)
(* Resource.Render (pkg/resource/resource.go): the Render call on a        *)
(* resource makes a semaphore and an errgroup, starts renderInstance, the  *)
(* loop over renderAsChild, the loop over embeds and renderContent as      *)
(* goroutines of the group, and waits for the group.                       *)
(***************************************************************************)
MaxConcurrency == 2  \* the largest concurrency argument
MaxFailures == 2     \* sub-operations that fail in one run

\* the resource graph of a run: a page with two children and an embedded
\* image; the first child is a page with an embedded image, the second an asset
Resources == 1..5

Root == 1

renderAsChild == << <<2, 3>>, <<>>, <<>>, <<>>, <<>> >>

embeds == << <<4>>, <<5>>, <<>>, <<>>, <<>> >>

\* the resources whose instance has a Render method, and those with a Content method
asRenderable == {3, 4, 5}

asContent == {1, 2}

Embedded == UNION {Range(embeds[n]) : n \in Resources}

\* the resource whose Render call renders n as a child, or embeds n
Parent(n) == CHOOSE p \in Resources : n \in Range(renderAsChild[p]) \cup Range(embeds[p])

Nil == [op |-> "nil", resource |-> 0]

\* ctx.Err() of a cancelled context
Canceled == [op |-> "context canceled", resource |-> 0]

Failed(op, n) == [op |-> op, resource |-> n]

\* a group that keeps the error of the goroutine that returned last
firstError_lastWins(err, e) == e

\* errgroup.Group: the error of the first goroutine that returned one
firstError(err, e) == IF err = Nil THEN e ELSE err

\* one semaphore for the whole graph
sem_shared(n) == Root

\* the semaphore the Render call on n acquires from: the one it has made
sem(n) == n

NoCall ==
    [state |-> "idle", err |-> Nil, errs |-> <<>>, permits |-> 0,
     instance |-> "idle", content |-> "idle", child |-> 0, embed |-> 0]

\* the Render call on n once its four goroutines are started; renderInstance
\* and renderContent return nil at once when the instance lacks the method
entered(n) ==
    [state |-> "waiting", err |-> Nil, errs |-> <<>>, permits |-> 0,
     instance |-> IF n \in asRenderable THEN "running" ELSE "done",
     content |-> IF n \in asContent THEN "running" ELSE "done",
     child |-> 1, embed |-> 1]

\* egCtx of the Render call on n is done: its group has an error, or the
\* context it derives from is done
RECURSIVE egCtxDone(_, _, _)
egCtxDone(c, done, n) ==
    \/ c[n].err # Nil
    \/ IF n = Root THEN done ELSE egCtxDone(c, done, Parent(n))

\* a goroutine of the group of n returns e
goReturn(c, n, e) ==
    IF e = Nil THEN c
    ELSE [c EXCEPT ![n].err = firstError(@, e), ![n].errs = Append(@, e)]

\* what a sub-operation that does work may return
Outcomes(op, n) ==
    {Nil} \cup (IF Cardinality(failures) < MaxFailures THEN {Failed(op, n)} ELSE {})

\* root.Render(ctx, concurrency)
Render ==
    /\ call[Root].state = "idle"
    /\ call' = [call EXCEPT ![Root] = entered(Root)]
    /\ UNCHANGED <<concurrency, ctxDone, embedTask, failures, notRender>>

\* the caller cancels ctx
Cancel ==
    /\ ~ctxDone
    /\ call[Root].state # "returned"
    /\ ctxDone' = TRUE
    /\ UNCHANGED <<concurrency, call, embedTask, failures, notRender>>

\* r.renderInstance(ctx) returns
renderInstance(n) ==
    /\ call[n].state = "waiting"
    /\ call[n].instance = "running"
    /\ \E e \in Outcomes("renderInstance", n) :
          /\ call' = goReturn([call EXCEPT ![n].instance = "done"], n, e)
          /\ failures' = failures \cup ({e} \ {Nil})
    /\ UNCHANGED <<concurrency, ctxDone, embedTask, notRender>>

\* r.renderContent() returns
renderContent(n) ==
    /\ call[n].state = "waiting"
    /\ call[n].content = "running"
    /\ \E e \in Outcomes("renderContent", n) :
          /\ call' = goReturn([call EXCEPT ![n].content = "done"], n, e)
          /\ failures' = failures \cup ({e} \ {Nil})
    /\ UNCHANGED <<concurrency, ctxDone, embedTask, notRender>>

\* the loop over r.renderAsChild acquires a permit and starts child.Render
acquireChild(n) ==
    /\ call[n].state = "waiting"
    /\ call[n].child <= Len(renderAsChild[n])
    /\ call[sem(n)].permits < concurrency
    /\ call' = [call EXCEPT ![sem(n)].permits = @ + 1,
                            ![n].child = @ + 1,
                            ![renderAsChild[n][call[n].child]] =
                                entered(renderAsChild[n][call[n].child])]
    /\ UNCHANGED <<concurrency, ctxDone, embedTask, failures, notRender>>

\* sem.Acquire returns the error of egCtx and the loop over r.renderAsChild ends
acquireChildFails(n) ==
    /\ call[n].state = "waiting"
    /\ call[n].child <= Len(renderAsChild[n])
    /\ egCtxDone(call, ctxDone, n)
    /\ call' = goReturn([call EXCEPT ![n].child = Len(renderAsChild[n]) + 1], n, Canceled)
    /\ UNCHANGED <<concurrency, ctxDone, embedTask, failures, notRender>>

\* the loop over r.embeds acquires a permit and starts embed.renderInstance
acquireEmbed(n) ==
    /\ call[n].state = "waiting"
    /\ call[n].embed <= Len(embeds[n])
    /\ call[sem(n)].permits < concurrency
    /\ call' = [call EXCEPT ![sem(n)].permits = @ + 1, ![n].embed = @ + 1]
    /\ embedTask' = [embedTask EXCEPT ![embeds[n][call[n].embed]] = "running"]
    /\ UNCHANGED <<concurrency, ctxDone, failures, notRender>>

\* sem.Acquire returns the error of egCtx and the loop over r.embeds ends
acquireEmbedFails(n) ==
    /\ call[n].state = "waiting"
    /\ call[n].embed <= Len(embeds[n])
    /\ egCtxDone(call, ctxDone, n)
    /\ call' = goReturn([call EXCEPT ![n].embed = Len(embeds[n]) + 1], n, Canceled)
    /\ UNCHANGED <<concurrency, ctxDone, embedTask, failures, notRender>>

\* embed.renderInstance(ctx) returns; the permit is released
embedRendered(e) ==
    /\ embedTask[e] = "running"
    /\ embedTask' = [embedTask EXCEPT ![e] = "done"]
    /\ \E out \in Outcomes("renderInstance", e) :
          /\ call' = goReturn([call EXCEPT ![sem(Parent(e))].permits = @ - 1], Parent(e), out)
          /\ failures' = failures \cup ({out} \ {Nil})
    /\ UNCHANGED <<concurrency, ctxDone, notRender>>

\* every goroutine of the group of n has returned
groupDone(n) ==
    /\ call[n].instance = "done"
    /\ call[n].content = "done"
    /\ call[n].child > Len(renderAsChild[n])
    /\ call[n].embed > Len(embeds[n])
    /\ \A c \in Range(renderAsChild[n]) : call[c].state # "waiting"
    /\ \A e \in Range(embeds[n]) : embedTask[e] # "running"

\* eg.Wait returns and with it the Render call on n; for a child, the
\* goroutine that called it releases its permit and returns the same error
wait(n) ==
    /\ call[n].state = "waiting"
    /\ groupDone(n)
    /\ call' = IF n = Root THEN [call EXCEPT ![n].state = "returned"]
               ELSE goReturn([call EXCEPT ![n].state = "returned",
                                          ![sem(Parent(n))].permits = @ - 1],
                             Parent(n), call[n].err)
    /\ UNCHANGED <<concurrency, ctxDone, embedTask, failures, notRender>>

\* the steps of the goroutines of a render
RenderSteps ==
    \/ Render
    \/ \E n \in Resources : renderInstance(n)
    \/ \E n \in Resources : renderContent(n)
    \/ \E n \in Resources : acquireChild(n)
    \/ \E n \in Resources : acquireChildFails(n)
    \/ \E n \in Resources : acquireEmbed(n)
    \/ \E n \in Resources : acquireEmbedFails(n)
    \/ \E e \in Embedded : embedRendered(e)
    \/ \E n \in Resources : wait(n)

RenderNext == RenderSteps \/ Cancel

\* before a render no Render call exists
NoCalls == [n \in Resources |-> NoCall]

NoEmbedTasks == [e \in Embedded |-> "idle"]

(***************************************************************************)
(* Properties of the scheduler                                             *)
(***************************************************************************)
\* the goroutines that run child.Render
childRenders == {n \in Resources \ {Root} : call[n].state = "waiting"}

\* the renderInstance calls that are at work, of a resource or of an embed
assetRenders ==
    {n \in Resources : call[n].state = "waiting" /\ call[n].instance = "running"}
        \cup {e \in Embedded : embedTask[e] = "running"}

\* the renderContent calls that are at work
pageRenders == {n \in Resources : call[n].state = "waiting" /\ call[n].content = "running"}

\* C4: at no time are more than concurrency render tasks (child renders,
\* asset renders and page renders taken together) executing.
C4_AtMostNTasks ==
    Cardinality(childRenders) + Cardinality(assetRenders) + Cardinality(pageRenders)
        <= concurrency

\* C5: for every concurrency >= 1 the Render call on the root eventually
\* returns, also when a resource has more children than concurrency.
C5_RenderReturns == <>(call[Root].state = "returned")

C5_Witness ==
    /\ concurrency < Len(renderAsChild[Root])
    /\ call[Root].state = "returned"
    /\ \A n \in Range(renderAsChild[Root]) : call[n].state = "returned"
    /\ \A e \in Embedded : embedTask[e] = "done"

\* C6: a Render call that has returned has returned the error of the first
\* of its sub-operations that returned one (nil when none did); the errors
\* returned after it are dropped.
C6_FirstErrorWins ==
    \A n \in Resources :
        call[n].state = "returned" =>
            call[n].err = IF call[n].errs = <<>> THEN Nil ELSE call[n].errs[1]

C6_Witness ==
    \E n \in Resources :
        /\ call[n].state = "returned"
        /\ Len(call[n].errs) >= 2
        /\ call[n].errs[2] # call[n].errs[1]
        /\ call[n].err = call[n].errs[1]

(***************************************************************************)
(* Resource.New (pkg/resource/resource.go) and NewTree, flatten            *)
(* (pkg/resource/tree.go).  The calls of New that have not returned are    *)
(* kept as a stack, the innermost call last.                               *)
(***************************************************************************)
MaxChildren == 2     \* manifests one manifest renders as children
MaxDepth == 4        \* nested calls the stack of the goroutine has room for

\* the manifests of a build; fewer than MaxDepth, so that every graph
\* without a cycle is built within the stack
Pages == 1..3

\* the lists EachChild may hand over: distinct manifests, at most MaxChildren
ChildLists ==
    {l \in UNION {[1..k -> Pages] : k \in 0..MaxChildren} :
        \A i, j \in 1..Len(l) : i # j => l[i] # l[j]}

\* the resource Resource.New makes for m on receiver parent
Resource(m, parent, children) == [manifest |-> m, Parent |-> parent, renderAsChild |-> children]

copyWithParent(r, parent) == [r EXCEPT !.Parent = parent]

\* a call of New for m: dep holds the resources made for its children so far
newCall(m, parent) == [manifest |-> m, Parent |-> parent, dep |-> <<>>]

\* the innermost call, and the manifest its EachChild loop hands over next
top == stack[Len(stack)]

nextChild == eachChild[top.manifest][Len(top.dep) + 1]

\* the innermost call gets the resource for one more child
addChild(st, r) == [st EXCEPT ![Len(st)].dep = Append(@, r)]

RECURSIVE flattenAll(_)
RECURSIVE flatten(_)
flattenAll(children) ==
    IF children = <<>> THEN <<>>
    ELSE flatten(Head(children)) \o flattenAll(Tail(children))

flatten(r) == <<r.manifest>> \o flattenAll(r.renderAsChild)

\* the manifests whose instance is an asset (AsAsset is not nil)
AssetManifests == {3}

\* assets: the loop over resources from entry k; seen is looked at and never
\* written
RECURSIVE assetsFrom(_, _, _, _)
assetsFrom(resources, k, seen, found) ==
    IF k > Len(resources) THEN found
    ELSE IF resources[k] \in seen THEN assetsFrom(resources, k + 1, seen, found)
    ELSE assetsFrom(resources, k + 1, seen,
                    IF resources[k] \in AssetManifests
                    THEN Append(found, resources[k]) ELSE found)

\* assets(resources): the resources that are assets
assets(resources) == assetsFrom(resources, 1, {}, <<>>)

\* resource.New(target, index, factory): the outermost call of Resource.New
New ==
    /\ phase = "idle"
    /\ stack' = <<newCall(rootTarget, NIL)>>
    /\ phase' = "building"
    /\ UNCHANGED <<eachChild, rootTarget, resourceCache, root, toRender, treeAssets, notBuild>>

\* el.New for the next child finds the resource in resourceCache
newCached ==
    /\ phase = "building"
    /\ Len(top.dep) < Len(eachChild[top.manifest])
    /\ nextChild \in DOMAIN resourceCache
    /\ stack' = addChild(stack, copyWithParent(resourceCache[nextChild], top.manifest))
    /\ UNCHANGED <<eachChild, rootTarget, resourceCache, root, toRender, treeAssets, phase, notBuild>>

\* el.New for the next child does not find it and goes on to build it
newEntered ==
    /\ phase = "building"
    /\ Len(top.dep) < Len(eachChild[top.manifest])
    /\ nextChild \notin DOMAIN resourceCache
    /\ Len(stack) < MaxDepth
    /\ stack' = Append(stack, newCall(nextChild, top.manifest))
    /\ UNCHANGED <<eachChild, rootTarget, resourceCache, root, toRender, treeAssets, phase, notBuild>>

\* el.New for the next child needs more stack than the goroutine may have
newOverflows ==
    /\ phase = "building"
    /\ Len(top.dep) < Len(eachChild[top.manifest])
    /\ nextChild \notin DOMAIN resourceCache
    /\ Len(stack) >= MaxDepth
    /\ phase' = "stackOverflow"
    /\ UNCHANGED <<eachChild, rootTarget, stack, resourceCache, root, toRender, treeAssets, notBuild>>

\* the innermost call has every child: it saves el in resourceCache and returns it
newReturned ==
    /\ phase = "building"
    /\ Len(top.dep) = Len(eachChild[top.manifest])
    /\ resourceCache' = MapPut(resourceCache, top.manifest,
                               Resource(top.manifest, top.Parent, top.dep))
    /\ IF Len(stack) = 1
       THEN /\ root' = Resource(top.manifest, top.Parent, top.dep)
            /\ stack' = <<>>
            /\ phase' = "built"
       ELSE /\ stack' = addChild(SubSeq(stack, 1, Len(stack) - 1),
                                 Resource(top.manifest, top.Parent, top.dep))
            /\ UNCHANGED <<root, phase>>
    /\ UNCHANGED <<eachChild, rootTarget, toRender, treeAssets, notBuild>>

\* NewTree flattens the graph into the resources to render
NewTree ==
    /\ phase = "built"
    /\ toRender' = flatten(root)
    /\ treeAssets' = assets(flatten(root))
    /\ phase' = "flattened"
    /\ UNCHANGED <<eachChild, rootTarget, stack, resourceCache, root, notBuild>>

BuildNext == New \/ newCached \/ newEntered \/ newOverflows \/ newReturned \/ NewTree

NoResource == Resource(NIL, NIL, <<>>)

(***************************************************************************)
(* Properties of the build                                                 *)
(***************************************************************************)
\* the manifests reached from m through one or more renderAsChild entries
Children(ms) == UNION {Range(eachChild[m]) : m \in ms}

Below(m) == Children({m}) \cup Children(Children({m})) \cup Children(Children(Children({m})))

\* the graph of the target has a manifest whose renderAsChild leads back to itself
Cyclic == \E m \in {rootTarget} \cup Below(rootTarget) : m \in Below(m)

\* C7: building and rendering a graph in which a manifest's renderAsChild
\* leads back to itself, directly or through other manifests, terminates (the
\* build does not run out of stack) and no manifest is rendered twice.
C7_CyclicGraphTerminates ==
    Cyclic =>
        /\ phase # "stackOverflow"
        /\ phase = "flattened" =>
              \A i, j \in 1..Len(toRender) : i # j => toRender[i] # toRender[j]

(***************************************************************************)
(* Tree.render, Tree.isCached and Tree.cache (internal/render/main.go),    *)
(* and the Render method of the image assets (pkg/resource/v1/asset/gif.go,*)
(* Jpeg.write, imageSpec.current and imageSpec.render).  One call of       *)
(* Tree.Render is a run; the files of dest and of the cache directory stay *)
(* from one run to the next.                                               *)
(***************************************************************************)
MaxRuns == 2         \* calls of Tree.Render
MaxFaults == 1       \* file operations and renders that fail
MaxTampers == 1      \* output files and manifests changed between two runs

\* the pages of Tree.toRender, by Resource.ID()
Targets == {1, 2}

\* the one asset of Tree.assets
Image == 3

Hrefs == {"", "a.html", "b.html"}

\* imageSpec.Widths
Widths == <<100, 200>>

\* strconv.Itoa(width), the name of the file of one width
WidthPath(width) == ToString(width)

WidthPaths == {WidthPath(Widths[i]) : i \in 1..Len(Widths)}

OutputPaths == (Hrefs \ {""}) \cup WidthPaths

NoFile == [exists |-> FALSE, data |-> <<>>]

File(data) == [exists |-> TRUE, data |-> data]

\* filepath.Join(t.cacheDir, target.ID()), the cache file of page p: the ID
\* names the resource by its selector and those of its templates, embeds and
\* children, so an edit of the body of its manifest leaves it as it is
cachePath(p) == p

\* what target.Render() returns for page p: the body of its manifest as it is now
Content(p) == <<p, body[p]>>

\* assetsProgress and pagesProgress of Tree.Render
ProgressChannels == {"assetsProgress", "pagesProgress"}

\* the bytes of the source file of the image: none, or some
Sources == {<<>>, <<7, 7>>}

\* what someone else may leave in an output file
Garbage == <<0>>

\* the resized and encoded image of one width
encode(src, width) == [i \in 1..Len(src) |-> src[i] + width]

\* what a failed write leaves of data: its first n bytes
written(n, data) == SubSeq(data, 1, IF n < Len(data) THEN n ELSE Len(data))

\* isCached that leaves a differing output alone
isCached_noRestore(d, c, p, fault, n) ==
    IF ~c[cachePath(p)].exists \/ ~d[hrefs[p]].exists
    THEN [cached |-> FALSE, dest |-> d, writes |-> 0, err |-> FALSE]
    ELSE IF c[cachePath(p)].data = d[hrefs[p]].data
    THEN [cached |-> TRUE, dest |-> d, writes |-> 0, err |-> FALSE]
    ELSE [cached |-> FALSE, dest |-> d, writes |-> 0, err |-> FALSE]

\* Tree.isCached: what it returns, the files of dest it leaves, the writes
\* it made and whether its write failed
isCached(d, c, p, fault, n) ==
    IF ~c[cachePath(p)].exists \/ ~d[hrefs[p]].exists
    THEN [cached |-> FALSE, dest |-> d, writes |-> 0, err |-> FALSE]
    ELSE IF c[cachePath(p)].data = d[hrefs[p]].data
    THEN [cached |-> TRUE, dest |-> d, writes |-> 0, err |-> FALSE]
    ELSE IF fault = "restore"
    THEN [cached |-> FALSE,
          dest |-> [d EXCEPT ![hrefs[p]] = File(written(n, c[cachePath(p)].data))],
          writes |-> 1, err |-> TRUE]
    ELSE [cached |-> TRUE, dest |-> [d EXCEPT ![hrefs[p]] = c[cachePath(p)]],
          writes |-> 1, err |-> FALSE]

renderResult(d, c, err, nwrites, how, restoreErr, faulted) ==
    [dest |-> d, cache |-> c, err |-> err, writes |-> nwrites, how |-> how,
     restoreErr |-> restoreErr, faulted |-> faulted]

\* Tree.render from target.Render() on: create, write, cache, close
renderFresh(d, c, p, fault, n, nwrites, restoreErr) ==
    IF fault \in {"render", "create"}
    THEN renderResult(d, c, TRUE, nwrites, "rendered", restoreErr, TRUE)
    ELSE IF fault = "write"
    THEN renderResult([d EXCEPT ![hrefs[p]] = File(written(n, Content(p)))], c,
                      TRUE, nwrites + 2, "rendered", restoreErr, TRUE)
    ELSE IF fault = "cache"
    THEN renderResult([d EXCEPT ![hrefs[p]] = File(Content(p))],
                      [c EXCEPT ![cachePath(p)] = File(written(n, Content(p)))],
                      TRUE, nwrites + 3, "rendered", restoreErr, TRUE)
    ELSE renderResult([d EXCEPT ![hrefs[p]] = File(Content(p))],
                      [c EXCEPT ![cachePath(p)] = File(Content(p))],
                      FALSE, nwrites + 3, "rendered", restoreErr, restoreErr)

renderChecked(c, p, fault, n, chk) ==
    IF chk.cached
    THEN renderResult(chk.dest, c, FALSE, chk.writes,
                      IF chk.writes = 0 THEN "current" ELSE "restored", FALSE, FALSE)
    ELSE renderFresh(chk.dest, c, p, fault, n, chk.writes, chk.err)

\* Tree.render(ctx, target) for page p when the operation named by fault fails
render(d, c, p, fault, n) ==
    IF hrefs[p] = "" THEN renderResult(d, c, FALSE, 0, "skipped", FALSE, FALSE)
    ELSE renderChecked(c, p, fault, n, isCached(d, c, p, fault, n))

\* the files Tree.render created and returns without closing
renderOpen(d, c, p, fault, n) ==
    IF hrefs[p] = "" \/ isCached(d, c, p, fault, n).cached THEN 0
    ELSE IF fault \in {"write", "cache"} THEN 1
    ELSE 0

\* imageSpec.current without the look at the files
current_never(d) == FALSE

\* imageSpec.current: every width has a file that is not empty
current(d) == \A path \in WidthPaths : d[path].exists /\ Len(d[path].data) # 0

\* the bytes Gif.write and Jpeg.write put into the file of one width
imageData(width) == IF kind = "gif" THEN source ELSE encode(source, width)

\* the file of a width whose write failed: Gif.write leaves what was written,
\* Jpeg.write removes the file
failedWidth(n) == IF kind = "gif" THEN File(written(n, source)) ELSE NoFile

imageResult(d, err, nwrites, faulted) ==
    [dest |-> d, err |-> err, writes |-> nwrites, faulted |-> faulted]

\* imageSpec.render when the write of width k fails and the widths in others
\* are written; the goroutines of the remaining widths see the cancelled context
renderFailing(d, k, n, others) ==
    [path \in OutputPaths |->
        IF path = WidthPath(Widths[k]) THEN failedWidth(n)
        ELSE IF \E i \in others : path = WidthPath(Widths[i])
        THEN File(imageData(Widths[CHOOSE i \in others : path = WidthPath(Widths[i])]))
        ELSE d[path]]

\* imageSpec.render when ctx is cancelled: the goroutines of the widths in
\* others write their file, the goroutine of width k and the rest return ctx.Err()
renderSome(d, others) ==
    [path \in OutputPaths |->
        IF \E i \in others : path = WidthPath(Widths[i])
        THEN File(imageData(Widths[CHOOSE i \in others : path = WidthPath(Widths[i])]))
        ELSE d[path]]

renderEvery(d) ==
    [path \in OutputPaths |->
        IF path \in WidthPaths
        THEN File(imageData(Widths[CHOOSE i \in 1..Len(Widths) : path = WidthPath(Widths[i])]))
        ELSE d[path]]

\* Gif.Render and Jpeg.Render when the operation named by fault fails
imageRender(d, fault, k, n, others) ==
    IF current(d) THEN imageResult(d, FALSE, 0, FALSE)
    ELSE IF fault = "read" THEN imageResult(d, TRUE, 0, TRUE)
    ELSE IF kind = "jpeg" /\ (fault = "decode" \/ source = <<>>)
    THEN imageResult(d, TRUE, 0, fault = "decode")
    ELSE IF fault = "write"
    THEN imageResult(renderFailing(d, k, n, others), TRUE, 1 + Cardinality(others), TRUE)
    ELSE IF fault = "cancelled"
    THEN imageResult(renderSome(d, others), TRUE, Cardinality(others), FALSE)
    ELSE imageResult(renderEvery(d), FALSE, Len(Widths), FALSE)

\* the files Gif.write and Jpeg.write created and return without closing:
\* Jpeg.write defers the Close, Gif.write returns the error of Write at once
imageOpen(d, fault) ==
    IF ~current(d) /\ fault = "write" /\ kind = "gif" THEN 1 ELSE 0

NoLast == [cache |-> NoFile, out |-> NoFile, how |-> "none", restoreErr |-> FALSE, after |-> NoFile]

\* Tree.Render is called
RunStarts ==
    /\ ~running
    /\ run < MaxRuns
    /\ running' = TRUE
    /\ run' = run + 1
    /\ task' = [t \in Targets \cup {Image} |-> "todo"]
    /\ last' = [p \in Targets |-> NoLast]
    /\ writes' = 0
    /\ cancelled' = FALSE
    /\ inRow' = (run >= 1 /\ untouched)
    /\ afterOK' = (run >= 1 /\ ~runErr)
    /\ closed' = {}
    /\ UNCHANGED <<hrefs, kind, source, dest, cacheFs, faults, tampers, untouched, runErr,
                   handles, body, notCache>>

pageRendered(p, out) ==
    /\ dest' = out.dest
    /\ cacheFs' = out.cache
    /\ task' = [task EXCEPT ![p] = IF out.err THEN "failed" ELSE "done"]
    /\ writes' = writes + out.writes
    /\ faults' = faults + (IF out.faulted THEN 1 ELSE 0)
    /\ last' = [last EXCEPT ![p] =
                   IF hrefs[p] = "" THEN [NoLast EXCEPT !.how = out.how]
                   ELSE [cache |-> cacheFs[cachePath(p)], out |-> dest[hrefs[p]], how |-> out.how,
                         restoreErr |-> out.restoreErr, after |-> out.dest[hrefs[p]]]]
    /\ UNCHANGED <<hrefs, kind, source, run, running, cancelled, tampers, untouched, inRow,
                   afterOK, runErr, body, closed, notCache>>

\* the goroutine that runs t.render(ctx, item) for page p
renderPage(p) ==
    /\ running
    /\ task[p] = "todo"
    /\ \E fault \in {"none", "restore", "render", "create", "write", "cache"}, n \in 0..1 :
          /\ fault = "none" \/ faults < MaxFaults
          /\ pageRendered(p, render(dest, cacheFs, p, fault, n))
          /\ handles' = handles + renderOpen(dest, cacheFs, p, fault, n)

imageRendered(out) ==
    /\ dest' = out.dest
    /\ task' = [task EXCEPT ![Image] = IF out.err THEN "failed" ELSE "done"]
    /\ writes' = writes + out.writes
    /\ faults' = faults + (IF out.faulted THEN 1 ELSE 0)
    /\ UNCHANGED <<hrefs, kind, source, cacheFs, last, run, running, cancelled, tampers,
                   untouched, inRow, afterOK, runErr, body, closed, notCache>>

\* the goroutine that runs instance.AsAsset.Render for the image
renderAsset ==
    /\ running
    /\ task[Image] = "todo"
    /\ \E fault \in {"none", "read", "decode", "write", "cancelled"},
          k \in 1..Len(Widths), n \in 0..1 :
          \E others \in SUBSET (1..Len(Widths) \ {k}) :
              /\ fault = "cancelled" => cancelled
              /\ fault \in {"none", "cancelled"} \/ faults < MaxFaults
              /\ imageRendered(imageRender(dest, fault, k, n, others))
              /\ handles' = handles + imageOpen(dest, fault)

\* the caller cancels ctx: items not yet handed to a goroutine may never be
CancelRun ==
    /\ running
    /\ ~cancelled
    /\ cancelled' = TRUE
    /\ UNCHANGED <<hrefs, kind, source, dest, cacheFs, task, last, run, running, writes,
                   faults, tampers, untouched, inRow, afterOK, runErr, handles, body, closed,
                   notCache>>

\* the channels Tree.Render closes after eg.Wait returned err: it returns err
\* before the two close calls
closedOnReturn(err) == IF err THEN {} ELSE ProgressChannels

\* eg.Wait returns: every goroutine has returned, and every item was handed
\* to one unless an Acquire failed on the cancelled context
RunReturns ==
    /\ running
    /\ \/ \A t \in DOMAIN task : task[t] # "todo"
       \/ cancelled
       \/ \E t \in DOMAIN task : task[t] = "failed"
    /\ running' = FALSE
    /\ runErr' = (\E t \in DOMAIN task : task[t] # "done")
    /\ closed' = closedOnReturn(runErr')
    /\ untouched' = TRUE
    /\ UNCHANGED <<hrefs, kind, source, dest, cacheFs, task, last, run, cancelled, writes,
                   faults, tampers, inRow, afterOK, handles, body, notCache>>

\* between two runs someone removes an output file or puts something else in it
Tamper(path, file) ==
    /\ ~running
    /\ run >= 1
    /\ run < MaxRuns
    /\ tampers < MaxTampers
    /\ dest[path] # file
    /\ dest' = [dest EXCEPT ![path] = file]
    /\ tampers' = tampers + 1
    /\ untouched' = FALSE
    /\ UNCHANGED <<hrefs, kind, source, cacheFs, task, last, run, running, cancelled, writes,
                   faults, inRow, afterOK, runErr, handles, body, closed, notCache>>

\* between two runs the body of the manifest of page p is edited
Edit(p) ==
    /\ ~running
    /\ run >= 1
    /\ run < MaxRuns
    /\ tampers < MaxTampers
    /\ body' = [body EXCEPT ![p] = @ + 1]
    /\ tampers' = tampers + 1
    /\ untouched' = FALSE
    /\ UNCHANGED <<hrefs, kind, source, dest, cacheFs, task, last, run, running, cancelled,
                   writes, faults, inRow, afterOK, runErr, handles, closed, notCache>>

CacheNext ==
    \/ RunStarts
    \/ \E p \in Targets : renderPage(p)
    \/ renderAsset
    \/ CancelRun
    \/ RunReturns
    \/ \E path \in OutputPaths, file \in {NoFile, File(Garbage)} : Tamper(path, file)
    \/ \E p \in Targets : Edit(p)

(***************************************************************************)
(* Properties of the cache and of the writers                              *)
(***************************************************************************)
\* no two pages with an output have the same output path
DistinctPaths == \A p, q \in Targets : (p # q /\ hrefs[p] # "") => hrefs[p] # hrefs[q]

C9_RestoredWithoutRender ==
    \A p \in Targets :
        (last[p].how \notin {"none", "skipped"} /\ last[p].cache.exists
            /\ last[p].out # last[p].cache)
        => (last[p].how = "restored" /\ last[p].after = last[p].cache)

\* C9 amended: a page that has a cache entry and an output file that differs
\* from it gets the entry as its output without a call of target.Render(),
\* unless the write of the output fails; a page whose output file is missing
\* is rendered again.
C9_RestoredWhenDifferent ==
    \A p \in Targets :
        /\ (last[p].how \notin {"none", "skipped"} /\ last[p].cache.exists
               /\ last[p].out.exists /\ last[p].out # last[p].cache /\ ~last[p].restoreErr)
           => (last[p].how = "restored" /\ last[p].after = last[p].cache)
        /\ (last[p].how \notin {"none", "skipped"} /\ last[p].cache.exists
               /\ ~last[p].out.exists)
           => last[p].how = "rendered"

C9_Witness ==
    \E p \in Targets :
        /\ last[p].how = "restored"
        /\ last[p].out.exists /\ last[p].out # last[p].cache
        /\ dest[hrefs[p]] = cacheFs[p]

\* the contents a writer may be asked to write
FullContents ==
    {Content(p) : p \in Targets} \cup {imageData(Widths[i]) : i \in 1..Len(Widths)}

\* a file that holds some but not all of the bytes of a content
HalfWritten(file) ==
    /\ file.exists
    /\ Len(file.data) > 0
    /\ \E full \in FullContents :
          Len(file.data) < Len(full) /\ file.data = SubSeq(full, 1, Len(file.data))

\* C10: when a run has returned an error (a render failed, or the run was
\* cancelled), no file of dest is half-written.
C10_NoHalfWrittenFile ==
    (run >= 1 /\ ~running /\ runErr) => \A path \in OutputPaths : ~HalfWritten(dest[path])

\* C20: every file a writer created is closed when the writer returns, also
\* when its write failed: between the calls of the writers no file is open.
C20_EveryHandleClosed == handles = 0

C29_ClosedOnReturn == (run >= 1 /\ ~running) => closed = ProgressChannels

(***************************************************************************)
(* Resource.BaseHref, Resource.Href and Resource.HrefCanonical             *)
(* (pkg/resource/resource.go).  A path is the list of its segments and     *)
(* whether it starts with a slash; the empty string has no segment and no  *)
(* slash.                                                                  *)
(***************************************************************************)
MaxAncestry == 3     \* resources from Root down to the one asked for its href

Path(abs, segs) == [abs |-> abs, segs |-> segs]

EmptyPath == Path(FALSE, <<>>)

\* Meta.BaseHref of the manifests: none, "/", "/topic/testing", "blog"
Prefixes == {EmptyPath, Path(TRUE, <<>>), Path(TRUE, <<"topic", "testing">>),
             Path(FALSE, <<"blog">>)}

\* what the Href() of the instances returns: "post.html", "/index.html"
Links == {Path(FALSE, <<"post.html">>), Path(TRUE, <<"index.html">>)}

RECURSIVE segments(_, _)
segments(elems, k) ==
    IF k > Len(elems) THEN <<>> ELSE elems[k].segs \o segments(elems, k + 1)

\* path.Join of the elements that are not empty, cleaned
joined(elems) ==
    IF Len(elems) = 0 THEN EmptyPath ELSE Path(elems[1].abs, segments(elems, 1))

\* path.Join: empty elements are left out, a slash separates the others and
\* slashes that follow each other become one
pathJoin(elems) == joined(SelectSeq(elems, LAMBDA e : e # EmptyPath))

\* the loop of BaseHref from resource parent up, NIL once Parent is nil
RECURSIVE baseHrefFrom(_, _, _)
baseHrefFrom(chain, parent, prefixes) ==
    IF parent = NIL THEN prefixes
    ELSE baseHrefFrom(chain, parent - 1,
                      IF chain[parent].base # EmptyPath
                      THEN <<chain[parent].base>> \o prefixes ELSE prefixes)

\* r.BaseHref(parent)
BaseHref(chain, r, parent) == pathJoin(baseHrefFrom(chain, parent, <<chain[r].base>>))

\* r.Href(): r.Parent is the resource before r, nil for Root
Href(chain, r) == pathJoin(<<BaseHref(chain, r, r - 1), chain[r].href>>)

\* r.HrefCanonical(): r.Root is the first resource
HrefCanonical(chain, r) == pathJoin(<<BaseHref(chain, r, 1), chain[r].href>>)

NoLink == [op |-> "none", r |-> NIL, out |-> EmptyPath]

\* resource.New for a child of the last resource
NewChild(base, href) ==
    /\ Len(ancestry) < MaxAncestry
    /\ ancestry' = Append(ancestry, [base |-> base, href |-> href])
    /\ link' = NoLink
    /\ UNCHANGED notHref

HrefCall(r) ==
    /\ link' = [op |-> "Href", r |-> r, out |-> Href(ancestry, r)]
    /\ UNCHANGED <<ancestry, notHref>>

HrefCanonicalCall(r) ==
    /\ link' = [op |-> "HrefCanonical", r |-> r, out |-> HrefCanonical(ancestry, r)]
    /\ UNCHANGED <<ancestry, notHref>>

HrefNext ==
    \/ \E base \in Prefixes, href \in Links : NewChild(base, href)
    \/ \E r \in 1..Len(ancestry) : HrefCall(r)
    \/ \E r \in 1..Len(ancestry) : HrefCanonicalCall(r)

\* the prefixes of the resources from..to of the ancestry, Root first
RECURSIVE prefixesOf(_, _)
prefixesOf(from, to) ==
    IF from > to THEN <<>> ELSE <<ancestry[from].base>> \o prefixesOf(from + 1, to)

\* C21: the href of a resource is the join of the prefix of every ancestor,
\* from Root down, with its own prefix and href; its canonical href is the
\* join of the prefix of Root alone with its own prefix and href (the prefix
\* of Root once when the resource is Root).
C21_HrefAndCanonical ==
    /\ link.op = "Href" =>
           link.out = pathJoin(prefixesOf(1, link.r) \o <<ancestry[link.r].href>>)
    /\ link.op = "HrefCanonical" =>
           link.out = pathJoin(<<ancestry[1].base>>
                               \o (IF link.r = 1 THEN <<>> ELSE <<ancestry[link.r].base>>)
                               \o <<ancestry[link.r].href>>)

\* C27: no asset manifest and no page is handed to more than one task of a
\* render run, so that no file of dest and no cache file has two writers:
\* Tree.assets and Tree.toRender, of which Tree.Render starts one task per
\* entry, hold no manifest twice.
C27_OneTaskPerFile ==
    phase = "flattened" =>
        /\ \A i, j \in 1..Len(treeAssets) : i # j => treeAssets[i] # treeAssets[j]
        /\ \A i, j \in 1..Len(toRender) : i # j => toRender[i] # toRender[j]

(***************************************************************************)
(* Specifications                                                          *)
(***************************************************************************)
\* NewIndex() over manifests with any of the declarations
IndexInit ==
    /\ decl \in Declarations
    /\ content = newIndex
    /\ relations = EmptyMap
    /\ inserted = {}
    /\ collided = {}
    /\ result = NoResult
    /\ lookup = NoLookup
    /\ concurrency = 1
    /\ ctxDone = FALSE
    /\ call = NoCalls
    /\ embedTask = NoEmbedTasks
    /\ failures = {}
    /\ eachChild = [m \in Pages |-> <<>>]
    /\ rootTarget = 1
    /\ stack = <<>>
    /\ resourceCache = EmptyMap
    /\ root = NoResource
    /\ toRender = <<>>
    /\ treeAssets = <<>>
    /\ phase = "idle"
    /\ hrefs = [p \in Targets |-> ""]
    /\ kind = "gif"
    /\ source = <<>>
    /\ dest = [path \in OutputPaths |-> NoFile]
    /\ cacheFs = [p \in Targets |-> NoFile]
    /\ task = [t \in Targets \cup {Image} |-> "todo"]
    /\ last = [p \in Targets |-> NoLast]
    /\ run = 0
    /\ running = FALSE
    /\ cancelled = FALSE
    /\ writes = 0
    /\ faults = 0
    /\ tampers = 0
    /\ untouched = FALSE
    /\ inRow = FALSE
    /\ afterOK = FALSE
    /\ runErr = FALSE
    /\ handles = 0
    /\ body = [p \in Targets |-> 0]
    /\ closed = {}
    /\ ancestry = <<>>
    /\ link = NoLink

\* the index: any sequence of Insert and Collate calls
IndexSpec == IndexInit /\ [][IndexNext]_vars

\* NewIndex() over manifests that declare nothing
LookupInit ==
    /\ decl = [m \in 1..Len(Catalogue) |-> <<>>]
    /\ content = newIndex
    /\ relations = EmptyMap
    /\ inserted = {}
    /\ collided = {}
    /\ result = NoResult
    /\ lookup = NoLookup
    /\ concurrency = 1
    /\ ctxDone = FALSE
    /\ call = NoCalls
    /\ embedTask = NoEmbedTasks
    /\ failures = {}
    /\ eachChild = [m \in Pages |-> <<>>]
    /\ rootTarget = 1
    /\ stack = <<>>
    /\ resourceCache = EmptyMap
    /\ root = NoResource
    /\ toRender = <<>>
    /\ treeAssets = <<>>
    /\ phase = "idle"
    /\ hrefs = [p \in Targets |-> ""]
    /\ kind = "gif"
    /\ source = <<>>
    /\ dest = [path \in OutputPaths |-> NoFile]
    /\ cacheFs = [p \in Targets |-> NoFile]
    /\ task = [t \in Targets \cup {Image} |-> "todo"]
    /\ last = [p \in Targets |-> NoLast]
    /\ run = 0
    /\ running = FALSE
    /\ cancelled = FALSE
    /\ writes = 0
    /\ faults = 0
    /\ tampers = 0
    /\ untouched = FALSE
    /\ inRow = FALSE
    /\ afterOK = FALSE
    /\ runErr = FALSE
    /\ handles = 0
    /\ body = [p \in Targets |-> 0]
    /\ closed = {}
    /\ ancestry = <<>>
    /\ link = NoLink

LookupSpec == LookupInit /\ [][LookupNext]_vars

SelectorSpec == LookupInit /\ [][SelectorNext]_vars

OrderSpec == LookupInit /\ [][OrderNext]_vars

\* NewIndex() over manifests of which the topic may declare a relation
RelationInit ==
    /\ decl \in RelationDecls
    /\ content = newIndex
    /\ relations = EmptyMap
    /\ inserted = {}
    /\ collided = {}
    /\ result = NoResult
    /\ lookup = NoLookup
    /\ concurrency = 1
    /\ ctxDone = FALSE
    /\ call = NoCalls
    /\ embedTask = NoEmbedTasks
    /\ failures = {}
    /\ eachChild = [m \in Pages |-> <<>>]
    /\ rootTarget = 1
    /\ stack = <<>>
    /\ resourceCache = EmptyMap
    /\ root = NoResource
    /\ toRender = <<>>
    /\ treeAssets = <<>>
    /\ phase = "idle"
    /\ hrefs = [p \in Targets |-> ""]
    /\ kind = "gif"
    /\ source = <<>>
    /\ dest = [path \in OutputPaths |-> NoFile]
    /\ cacheFs = [p \in Targets |-> NoFile]
    /\ task = [t \in Targets \cup {Image} |-> "todo"]
    /\ last = [p \in Targets |-> NoLast]
    /\ run = 0
    /\ running = FALSE
    /\ cancelled = FALSE
    /\ writes = 0
    /\ faults = 0
    /\ tampers = 0
    /\ untouched = FALSE
    /\ inRow = FALSE
    /\ afterOK = FALSE
    /\ runErr = FALSE
    /\ handles = 0
    /\ body = [p \in Targets |-> 0]
    /\ closed = {}
    /\ ancestry = <<>>
    /\ link = NoLink

\* the index: any sequence of Insert and Collate calls
RelationSpec == RelationInit /\ [][RelationNext]_vars

\* NewIndex() before manifests are parsed and inserted
IntakeInit ==
    /\ decl = [m \in 1..Len(Catalogue) |-> <<>>]
    /\ content = newIndex
    /\ relations = EmptyMap
    /\ inserted = {}
    /\ collided = {}
    /\ result = NoResult
    /\ lookup = NoLookup
    /\ concurrency = 1
    /\ ctxDone = FALSE
    /\ call = NoCalls
    /\ embedTask = NoEmbedTasks
    /\ failures = {}
    /\ eachChild = [m \in Pages |-> <<>>]
    /\ rootTarget = 1
    /\ stack = <<>>
    /\ resourceCache = EmptyMap
    /\ root = NoResource
    /\ toRender = <<>>
    /\ treeAssets = <<>>
    /\ phase = "idle"
    /\ hrefs = [p \in Targets |-> ""]
    /\ kind = "gif"
    /\ source = <<>>
    /\ dest = [path \in OutputPaths |-> NoFile]
    /\ cacheFs = [p \in Targets |-> NoFile]
    /\ task = [t \in Targets \cup {Image} |-> "todo"]
    /\ last = [p \in Targets |-> NoLast]
    /\ run = 0
    /\ running = FALSE
    /\ cancelled = FALSE
    /\ writes = 0
    /\ faults = 0
    /\ tampers = 0
    /\ untouched = FALSE
    /\ inRow = FALSE
    /\ afterOK = FALSE
    /\ runErr = FALSE
    /\ handles = 0
    /\ body = [p \in Targets |-> 0]
    /\ closed = {}
    /\ ancestry = <<>>
    /\ link = NoLink

IntakeSpec == IntakeInit /\ [][IntakeNext]_vars

\* NewIndex() before a caller that changes the lists it gets
MutateInit ==
    /\ decl = [m \in 1..Len(Catalogue) |-> <<>>]
    /\ content = newIndex
    /\ relations = EmptyMap
    /\ inserted = {}
    /\ collided = {}
    /\ result = NoResult
    /\ lookup = NoLookup
    /\ concurrency = 1
    /\ ctxDone = FALSE
    /\ call = NoCalls
    /\ embedTask = NoEmbedTasks
    /\ failures = {}
    /\ eachChild = [m \in Pages |-> <<>>]
    /\ rootTarget = 1
    /\ stack = <<>>
    /\ resourceCache = EmptyMap
    /\ root = NoResource
    /\ toRender = <<>>
    /\ treeAssets = <<>>
    /\ phase = "idle"
    /\ hrefs = [p \in Targets |-> ""]
    /\ kind = "gif"
    /\ source = <<>>
    /\ dest = [path \in OutputPaths |-> NoFile]
    /\ cacheFs = [p \in Targets |-> NoFile]
    /\ task = [t \in Targets \cup {Image} |-> "todo"]
    /\ last = [p \in Targets |-> NoLast]
    /\ run = 0
    /\ running = FALSE
    /\ cancelled = FALSE
    /\ writes = 0
    /\ faults = 0
    /\ tampers = 0
    /\ untouched = FALSE
    /\ inRow = FALSE
    /\ afterOK = FALSE
    /\ runErr = FALSE
    /\ handles = 0
    /\ body = [p \in Targets |-> 0]
    /\ closed = {}
    /\ ancestry = <<>>
    /\ link = NoLink

MutateSpec == MutateInit /\ [][MutateNext]_vars

\* NewIndex() before the notes of the archive are inserted
ArchiveInit ==
    /\ decl = [m \in 1..Len(Catalogue) |-> <<>>]
    /\ content = newIndex
    /\ relations = EmptyMap
    /\ inserted = {}
    /\ collided = {}
    /\ result = NoResult
    /\ lookup = NoLookup
    /\ concurrency = 1
    /\ ctxDone = FALSE
    /\ call = NoCalls
    /\ embedTask = NoEmbedTasks
    /\ failures = {}
    /\ eachChild = [m \in Pages |-> <<>>]
    /\ rootTarget = 1
    /\ stack = <<>>
    /\ resourceCache = EmptyMap
    /\ root = NoResource
    /\ toRender = <<>>
    /\ treeAssets = <<>>
    /\ phase = "idle"
    /\ hrefs = [p \in Targets |-> ""]
    /\ kind = "gif"
    /\ source = <<>>
    /\ dest = [path \in OutputPaths |-> NoFile]
    /\ cacheFs = [p \in Targets |-> NoFile]
    /\ task = [t \in Targets \cup {Image} |-> "todo"]
    /\ last = [p \in Targets |-> NoLast]
    /\ run = 0
    /\ running = FALSE
    /\ cancelled = FALSE
    /\ writes = 0
    /\ faults = 0
    /\ tampers = 0
    /\ untouched = FALSE
    /\ inRow = FALSE
    /\ afterOK = FALSE
    /\ runErr = FALSE
    /\ handles = 0
    /\ body = [p \in Targets |-> 0]
    /\ closed = {}
    /\ ancestry = <<>>
    /\ link = NoLink

ArchiveSpec == ArchiveInit /\ [][ArchiveNext]_vars

\* a built resource graph before root.Render is called
RenderInit ==
    /\ concurrency \in 1..MaxConcurrency
    /\ ctxDone = FALSE
    /\ call = NoCalls
    /\ embedTask = NoEmbedTasks
    /\ failures = {}
    /\ decl = [m \in Manifests |-> <<>>]
    /\ content = newIndex
    /\ relations = EmptyMap
    /\ inserted = {}
    /\ collided = {}
    /\ result = NoResult
    /\ lookup = NoLookup
    /\ eachChild = [m \in Pages |-> <<>>]
    /\ rootTarget = 1
    /\ stack = <<>>
    /\ resourceCache = EmptyMap
    /\ root = NoResource
    /\ toRender = <<>>
    /\ treeAssets = <<>>
    /\ phase = "idle"
    /\ hrefs = [p \in Targets |-> ""]
    /\ kind = "gif"
    /\ source = <<>>
    /\ dest = [path \in OutputPaths |-> NoFile]
    /\ cacheFs = [p \in Targets |-> NoFile]
    /\ task = [t \in Targets \cup {Image} |-> "todo"]
    /\ last = [p \in Targets |-> NoLast]
    /\ run = 0
    /\ running = FALSE
    /\ cancelled = FALSE
    /\ writes = 0
    /\ faults = 0
    /\ tampers = 0
    /\ untouched = FALSE
    /\ inRow = FALSE
    /\ afterOK = FALSE
    /\ runErr = FALSE
    /\ handles = 0
    /\ body = [p \in Targets |-> 0]
    /\ closed = {}
    /\ ancestry = <<>>
    /\ link = NoLink

\* a render, with or without cancellation
RenderSpec == RenderInit /\ [][RenderNext]_vars

\* a render in which a goroutine that can take a step eventually takes one
RenderFairSpec == RenderSpec /\ WF_vars(RenderSteps)

\* an index of manifests with any renderAsChild lists, before resource.New
BuildInit ==
    /\ eachChild \in [Pages -> ChildLists]
    /\ rootTarget \in Pages
    /\ stack = <<>>
    /\ resourceCache = EmptyMap
    /\ root = NoResource
    /\ toRender = <<>>
    /\ treeAssets = <<>>
    /\ phase = "idle"
    /\ decl = [m \in Manifests |-> <<>>]
    /\ content = newIndex
    /\ relations = EmptyMap
    /\ inserted = {}
    /\ collided = {}
    /\ result = NoResult
    /\ lookup = NoLookup
    /\ concurrency = 1
    /\ ctxDone = FALSE
    /\ call = NoCalls
    /\ embedTask = NoEmbedTasks
    /\ failures = {}
    /\ hrefs = [p \in Targets |-> ""]
    /\ kind = "gif"
    /\ source = <<>>
    /\ dest = [path \in OutputPaths |-> NoFile]
    /\ cacheFs = [p \in Targets |-> NoFile]
    /\ task = [t \in Targets \cup {Image} |-> "todo"]
    /\ last = [p \in Targets |-> NoLast]
    /\ run = 0
    /\ running = FALSE
    /\ cancelled = FALSE
    /\ writes = 0
    /\ faults = 0
    /\ tampers = 0
    /\ untouched = FALSE
    /\ inRow = FALSE
    /\ afterOK = FALSE
    /\ runErr = FALSE
    /\ handles = 0
    /\ body = [p \in Targets |-> 0]
    /\ closed = {}
    /\ ancestry = <<>>
    /\ link = NoLink

\* the build of the resource graph of one target
BuildSpec == BuildInit /\ [][BuildNext]_vars

\* an empty output directory and an empty cache directory, before the first run
CacheInit ==
    /\ hrefs \in [Targets -> Hrefs]
    /\ kind \in {"gif", "jpeg"}
    /\ source \in Sources
    /\ dest = [path \in OutputPaths |-> NoFile]
    /\ cacheFs = [p \in Targets |-> NoFile]
    /\ task = [t \in Targets \cup {Image} |-> "todo"]
    /\ last = [p \in Targets |-> NoLast]
    /\ run = 0
    /\ running = FALSE
    /\ cancelled = FALSE
    /\ writes = 0
    /\ faults = 0
    /\ tampers = 0
    /\ untouched = FALSE
    /\ inRow = FALSE
    /\ afterOK = FALSE
    /\ runErr = FALSE
    /\ handles = 0
    /\ body = [p \in Targets |-> 0]
    /\ closed = {}
    /\ ancestry = <<>>
    /\ link = NoLink
    /\ decl = [m \in Manifests |-> <<>>]
    /\ content = newIndex
    /\ relations = EmptyMap
    /\ inserted = {}
    /\ collided = {}
    /\ result = NoResult
    /\ lookup = NoLookup
    /\ concurrency = 1
    /\ ctxDone = FALSE
    /\ call = NoCalls
    /\ embedTask = NoEmbedTasks
    /\ failures = {}
    /\ eachChild = [m \in Pages |-> <<>>]
    /\ rootTarget = 1
    /\ stack = <<>>
    /\ resourceCache = EmptyMap
    /\ root = NoResource
    /\ toRender = <<>>
    /\ treeAssets = <<>>
    /\ phase = "idle"

\* runs of Tree.Render over the same pages and image
CacheSpec == CacheInit /\ [][CacheNext]_vars

\* a Root resource with any prefix and href
HrefInit ==
    /\ ancestry \in {<<[base |-> base, href |-> href]>> : base \in Prefixes, href \in Links}
    /\ link = NoLink
    /\ decl = [m \in 1..Len(Catalogue) |-> <<>>]
    /\ content = newIndex
    /\ relations = EmptyMap
    /\ inserted = {}
    /\ collided = {}
    /\ result = NoResult
    /\ lookup = NoLookup
    /\ concurrency = 1
    /\ ctxDone = FALSE
    /\ call = NoCalls
    /\ embedTask = NoEmbedTasks
    /\ failures = {}
    /\ eachChild = [m \in Pages |-> <<>>]
    /\ rootTarget = 1
    /\ stack = <<>>
    /\ resourceCache = EmptyMap
    /\ root = NoResource
    /\ toRender = <<>>
    /\ treeAssets = <<>>
    /\ phase = "idle"
    /\ hrefs = [p \in Targets |-> ""]
    /\ kind = "gif"
    /\ source = <<>>
    /\ dest = [path \in OutputPaths |-> NoFile]
    /\ cacheFs = [p \in Targets |-> NoFile]
    /\ task = [t \in Targets \cup {Image} |-> "todo"]
    /\ last = [p \in Targets |-> NoLast]
    /\ run = 0
    /\ running = FALSE
    /\ cancelled = FALSE
    /\ writes = 0
    /\ faults = 0
    /\ tampers = 0
    /\ untouched = FALSE
    /\ inRow = FALSE
    /\ afterOK = FALSE
    /\ runErr = FALSE
    /\ handles = 0
    /\ body = [p \in Targets |-> 0]
    /\ closed = {}

HrefSpec == HrefInit /\ [][HrefNext]_vars

====
